---- MODULE Spec2Model ----
(***************************************************************************)
(* Command mediation engine of BashBard (agentic_shell_guard).             *)
(*                                                                         *)
(* Text is modelled as a sequence of one-character strings, so that the    *)
(* regular expressions, the tokenizer and the keyword searches of the      *)
(* source are computed on the characters, as the source computes them.     *)
(***************************************************************************)
EXTENDS Integers, Sequences, FiniteSets, TLC

-----------------------------------------------------------------------------
(* Characters and elementary string functions (Python str methods).        *)

LowerLetters ==
  {"a","b","c","d","e","f","g","h","i","j","k","l","m",
   "n","o","p","q","r","s","t","u","v","w","x","y","z"}

UpperLetters ==
  {"A","B","C","D","E","F","G","H","I","J","K","L","M",
   "N","O","P","Q","R","S","T","U","V","W","X","Y","Z"}

Digits == {"0","1","2","3","4","5","6","7","8","9"}

\* \w of the re module
WordChars == LowerLetters \cup UpperLetters \cup Digits \cup {"_"}

\* \s of the re module and the characters str.strip() removes
WhiteSpace == {" ", "\t", "\n", "\r", "\f"}

UpperSeq == <<"A","B","C","D","E","F","G","H","I","J","K","L","M","N","O","P","Q","R","S","T","U","V","W","X","Y","Z">>

LowerSeq == <<"a","b","c","d","e","f","g","h","i","j","k","l","m","n","o","p","q","r","s","t","u","v","w","x","y","z">>

\* str.lower() on one character
LowerChar(c) ==
  IF c \in UpperLetters
    THEN LowerSeq[CHOOSE k \in 1..26 : UpperSeq[k] = c]
    ELSE c

\* str.lower()
Lower(s) == [k \in 1..Len(s) |-> LowerChar(s[k])]

RECURSIVE LStrip(_)
LStrip(s) ==
  IF s # <<>> /\ Head(s) \in WhiteSpace THEN LStrip(Tail(s)) ELSE s

RECURSIVE RStrip(_)
RStrip(s) ==
  IF s # <<>> /\ s[Len(s)] \in WhiteSpace
    THEN RStrip(SubSeq(s, 1, Len(s) - 1))
    ELSE s

\* str.strip()
Strip(s) == RStrip(LStrip(s))

\* the Python test  k in s  on strings
Contains(s, k) ==
  \E i \in 0..(Len(s) - Len(k)) : SubSeq(s, i + 1, i + Len(k)) = k

\* str.startswith
StartsWith(s, k) == Len(k) <= Len(s) /\ SubSeq(s, 1, Len(k)) = k

-----------------------------------------------------------------------------
(* Regular expressions of the re module, as syntax trees, and re.search.   *)
(* Ends(re, s, i) is the set of positions at which a match of re that      *)
(* starts at position i of s can end (positions count consumed chars).     *)

Str(x)    == [t |-> "str", s |-> x]
In(cs)    == [t |-> "in", cs |-> cs]
NotIn(cs) == [t |-> "notin", cs |-> cs]
WordB     == [t |-> "b"]
EndS      == [t |-> "end"]
Cat(rs)   == [t |-> "seq", rs |-> rs]
Alt(rs)   == [t |-> "alt", rs |-> rs]
Star(r)   == [t |-> "star", r |-> r]
Plus(r)   == [t |-> "plus", r |-> r]
Opt(r)    == [t |-> "opt", r |-> r]

\* [^\n]*
AnyStar == Star(NotIn({"\n"}))

\* \s*
WsStar == Star(In(WhiteSpace))

\* \b at position i of s
AtWordBoundary(s, i) ==
  LET before == i > 0 /\ s[i] \in WordChars
      after  == i < Len(s) /\ s[i + 1] \in WordChars
  IN  before # after

\* $ at position i of s (end of text, or before a final newline)
AtEnd(s, i) ==
  \/ i = Len(s)
  \/ i = Len(s) - 1 /\ s[Len(s)] = "\n"

RECURSIVE Ends(_, _, _), SeqEnds(_, _, _, _), Closure(_, _, _, _)

Ends(re, s, i) ==
  CASE re.t = "str"   -> IF /\ i + Len(re.s) <= Len(s)
                            /\ SubSeq(s, i + 1, i + Len(re.s)) = re.s
                           THEN {i + Len(re.s)} ELSE {}
    [] re.t = "in"    -> IF i < Len(s) /\ s[i + 1] \in re.cs
                           THEN {i + 1} ELSE {}
    [] re.t = "notin" -> IF i < Len(s) /\ s[i + 1] \notin re.cs
                           THEN {i + 1} ELSE {}
    [] re.t = "b"     -> IF AtWordBoundary(s, i) THEN {i} ELSE {}
    [] re.t = "end"   -> IF AtEnd(s, i) THEN {i} ELSE {}
    [] re.t = "seq"   -> SeqEnds(re.rs, 1, s, {i})
    [] re.t = "alt"   -> UNION {Ends(re.rs[k], s, i) : k \in 1..Len(re.rs)}
    [] re.t = "star"  -> Closure(re.r, s, {i}, {i})
    [] re.t = "plus"  -> LET first == Ends(re.r, s, i)
                         IN  Closure(re.r, s, first, first)
    [] re.t = "opt"   -> {i} \cup Ends(re.r, s, i)

SeqEnds(rs, k, s, from) ==
  IF k > Len(rs) \/ from = {}
    THEN from
    ELSE SeqEnds(rs, k + 1, s, UNION {Ends(rs[k], s, i) : i \in from})

Closure(r, s, frontier, acc) ==
  LET next == (UNION {Ends(r, s, i) : i \in frontier}) \ acc
  IN  IF next = {} THEN acc ELSE Closure(r, s, next, acc \cup next)

\* re.search(pattern, s) is not None
Search(re, s) == \E i \in 0..Len(s) : Ends(re, s, i) # {}

-----------------------------------------------------------------------------
(* safety.py: the safety classifier.                                       *)

L_RootDelete  == <<"R","e","c","u","r","s","i","v","e"," ","d","e","l","e","t","e"," ","f","r","o","m"," ","r","o","o","t">>
L_Wildcard    == <<"W","i","l","d","c","a","r","d"," ","r","e","c","u","r","s","i","v","e"," ","d","e","l","e","t","e">>
L_RawDisk     == <<"R","a","w"," ","d","i","s","k"," ","w","r","i","t","e"," ","w","i","t","h"," ","d","d">>
L_Mkfs        == <<"F","i","l","e","s","y","s","t","e","m"," ","c","r","e","a","t","i","o","n"," ","(","m","k","f","s",")">>
L_ForkBomb    == <<"F","o","r","k"," ","b","o","m","b">>
L_PermRoot    == <<"R","e","c","u","r","s","i","v","e"," ","p","e","r","m"," ","c","h","a","n","g","e"," ","a","t"," ","r","o","o","t">>
L_Shred       == <<"S","h","r","e","d"," ","o","n"," ","d","e","v","i","c","e"," ","o","r"," ","r","o","o","t">>
L_Power       == <<"S","y","s","t","e","m"," ","p","o","w","e","r"," ","a","c","t","i","o","n">>
L_BindMount   == <<"R","i","s","k","y"," ","b","i","n","d"," ","m","o","u","n","t"," ","p","r","o","c">>
L_UserDel     == <<"U","s","e","r"," ","d","e","l","e","t","e"," ","w","i","t","h"," ","r","e","m","o","v","e">>
L_Kill1       == <<"S","I","G","K","I","L","L"," ","P","I","D"," ","1">>
L_WriteEtc    == <<"W","r","i","t","e"," ","i","n","t","o"," ","/","e","t","c">>
L_PipeShell   == <<"P","i","p","e"," ","r","e","m","o","t","e"," ","s","c","r","i","p","t"," ","t","o"," ","s","h","e","l","l">>
L_Sudo        == <<"U","s","e","s"," ","s","u","d","o"," ","o","n"," ","n","o","n","-","a","l","l","o","w","l","i","s","t","e","d"," ","c","o","m","m","a","n","d">>
L_Redirect    == <<"R","e","d","i","r","e","c","t","i","o","n"," ","i","n","t","o"," ","s","y","s","t","e","m"," ","p","a","t","h">>

P_RootDelete ==
  Cat(<<WordB, Str(<<"r","m">>), WordB, AnyStar, WordB,
        Alt(<<Str(<<"-","r","f">>), Str(<<"-","-","n","o","-","p","r","e","s","e","r","v","e","-","r","o","o","t">>)>>), WordB,
        AnyStar, Str(<<"/">>), WsStar, EndS>>)

P_Wildcard ==
  Cat(<<WordB, Str(<<"r","m">>), WordB, AnyStar, WordB, Opt(Str(<<"-","r","f">>)), WordB,
        Plus(In(WhiteSpace)),
        Alt(<<Str(<<"*","/","*">>), Cat(<<Str(<<"*">>), WsStar, EndS>>)>>)>>)

P_RawDisk ==
  Cat(<<WordB, Str(<<"d","d">>), WordB, AnyStar, Opt(Str(<<"o","f","=">>)),
        Str(<<"/","d","e","v","/","s","d">>), In(LowerLetters), WordB>>)

P_Mkfs ==
  Cat(<<WordB, Str(<<"m","k","f","s",".">>), Plus(In(LowerLetters \cup Digits)), WordB>>)

P_ForkBomb ==
  Cat(<<WordB, Str(<<":">>), WsStar, Str(<<"(",")">>), WsStar, Str(<<"{">>), WsStar,
        Str(<<":","|",":">>), WsStar, Str(<<";">>), WsStar, Str(<<"}">>), WsStar,
        Str(<<";">>), WsStar, Str(<<":">>), WordB>>)

P_PermRoot ==
  Cat(<<WordB, Alt(<<Str(<<"c","h","o","w","n">>), Str(<<"c","h","m","o","d">>)>>), WordB, AnyStar,
        WordB, Str(<<"-","R">>), WordB, AnyStar, Str(<<"/">>), WsStar, EndS>>)

P_Shred ==
  Cat(<<WordB, Str(<<"s","h","r","e","d">>), WordB, AnyStar,
        Alt(<<Cat(<<Str(<<"/","d","e","v","/","s","d">>), In(LowerLetters)>>),
              Cat(<<Str(<<"/">>), WsStar, EndS>>)>>)>>)

P_Power ==
  Alt(<<Cat(<<WordB, Str(<<"s","h","u","t","d","o","w","n">>), WordB>>),
        Cat(<<WordB, Str(<<"r","e","b","o","o","t">>), WordB>>),
        Cat(<<WordB, Str(<<"h","a","l","t">>), WordB>>)>>)

P_BindMount ==
  Cat(<<WordB, Str(<<"m","o","u","n","t">>), WordB, AnyStar, WordB, Str(<<"-","-","b","i","n","d">>), WordB,
        AnyStar, Str(<<"/","p","r","o","c">>), WordB>>)

P_UserDel ==
  Cat(<<WordB, Str(<<"u","s","e","r","d","e","l">>), WordB, AnyStar, WordB, Str(<<"-","-","r","e","m","o","v","e">>),
        WordB, Plus(In(WhiteSpace)), Plus(In(WordChars))>>)

P_Kill1 ==
  Cat(<<WordB, Str(<<"k","i","l","l">>), WordB, Plus(In(WhiteSpace)), Str(<<"-","9">>),
        Plus(In(WhiteSpace)), Str(<<"1">>), WordB>>)

P_WriteEtc ==
  Cat(<<WordB, Alt(<<Str(<<"e","c","h","o">>), Str(<<"p","r","i","n","t","f">>)>>), WordB, AnyStar,
        WsStar, Str(<<">">>), WsStar, Str(<<"/","e","t","c","/">>), Plus(In(WordChars))>>)

P_PipeShell ==
  Cat(<<WordB, Alt(<<Str(<<"c","u","r","l">>), Str(<<"w","g","e","t">>)>>), WordB, AnyStar,
        Str(<<"|">>), WsStar, Alt(<<Str(<<"s","h">>), Str(<<"b","a","s","h">>)>>), WordB>>)

DANGEROUS_PATTERNS ==
  << <<P_RootDelete, L_RootDelete>>,
     <<P_Wildcard,   L_Wildcard>>,
     <<P_RawDisk,    L_RawDisk>>,
     <<P_Mkfs,       L_Mkfs>>,
     <<P_ForkBomb,   L_ForkBomb>>,
     <<P_PermRoot,   L_PermRoot>>,
     <<P_Shred,      L_Shred>>,
     <<P_Power,      L_Power>>,
     <<P_BindMount,  L_BindMount>>,
     <<P_UserDel,    L_UserDel>>,
     <<P_Kill1,      L_Kill1>>,
     <<P_WriteEtc,   L_WriteEtc>>,
     <<P_PipeShell,  L_PipeShell>> >>

ALLOWED_PREFIXES ==
  { <<"l","s">>, <<"c","a","t">>, <<"h","e","a","d">>, <<"t","a","i","l">>, <<"g","r","e","p">>, <<"e","g","r","e","p">>, <<"f","g","r","e","p">>,
    <<"f","i","n","d">>, <<"p","w","d">>, <<"w","h","o","a","m","i">>, <<"i","d">>, <<"d","a","t","e">>, <<"u","p","t","i","m","e">>, <<"d","f">>,
    <<"d","u">>, <<"f","r","e","e">>, <<"u","n","a","m","e">>, <<"s","t","a","t">>, <<"w","c">>, <<"c","u","t">>, <<"s","o","r","t">>,
    <<"u","n","i","q">>, <<"e","c","h","o">>, <<"p","r","i","n","t","f">>, <<"s","e","d">>, <<"a","w","k">>, <<"p","s">>, <<"t","o","p">>,
    <<"h","t","o","p">>, <<"s","s">> }

\* r">\s*/(etc|boot|bin|sbin|usr)/"
P_SystemRedirect ==
  Cat(<<Str(<<">">>), WsStar, Str(<<"/">>),
        Alt(<<Str(<<"e","t","c">>), Str(<<"b","o","o","t">>), Str(<<"b","i","n">>), Str(<<"s","b","i","n">>),
              Str(<<"u","s","r">>)>>),
        Str(<<"/">>)>>)

-----------------------------------------------------------------------------
(* shlex.split(s) in POSIX mode with whitespace_split, as the tokenizer of *)
(* the standard library reads a token: the scanner states are " " (between *)
(* tokens), "a" (in a word), a quote character, and "\\" (after an escape, *)
(* returning to state esc).  The result is the list of tokens, or the      *)
(* value ShlexError when the text ends inside a quotation or an escape     *)
(* (shlex raises ValueError).                                              *)

ShlexError == "ValueError"

\* shlex.whitespace
ShlexWhitespace == {" ", "\t", "\r", "\n"}

ShlexQuotes == {"'", "\""}

ShlexEscape == "\\"

RECURSIVE ShlexScan(_, _, _, _, _, _, _)
ShlexScan(s, i, state, esc, tok, quoted, toks) ==
  IF i > Len(s)
    THEN IF state \in ShlexQuotes \/ state = ShlexEscape
           THEN ShlexError
           ELSE IF state = "a" /\ (tok # <<>> \/ quoted)
                  THEN Append(toks, tok)
                  ELSE toks
    ELSE
      LET c == s[i] IN
      CASE state = " " ->
             IF c \in ShlexWhitespace
               THEN ShlexScan(s, i + 1, " ", esc, <<>>, FALSE, toks)
             ELSE IF c = ShlexEscape
               THEN ShlexScan(s, i + 1, ShlexEscape, "a", tok, quoted, toks)
             ELSE IF c \in ShlexQuotes
               THEN ShlexScan(s, i + 1, c, esc, tok, quoted, toks)
             ELSE ShlexScan(s, i + 1, "a", esc, <<c>>, quoted, toks)
        [] state \in ShlexQuotes ->
             IF c = state
               THEN ShlexScan(s, i + 1, "a", esc, tok, TRUE, toks)
             ELSE IF c = ShlexEscape /\ state = "\""
               THEN ShlexScan(s, i + 1, ShlexEscape, state, tok, TRUE, toks)
             ELSE ShlexScan(s, i + 1, state, esc, Append(tok, c), TRUE, toks)
        [] state = ShlexEscape ->
             LET kept == IF esc \in ShlexQuotes /\ c # ShlexEscape /\ c # esc
                           THEN Append(tok, ShlexEscape)
                           ELSE tok
             IN  ShlexScan(s, i + 1, esc, esc, Append(kept, c), quoted, toks)
        [] state = "a" ->
             IF c \in ShlexWhitespace
               THEN IF tok # <<>> \/ quoted
                      THEN ShlexScan(s, i + 1, " ", esc, <<>>, FALSE,
                                     Append(toks, tok))
                      ELSE ShlexScan(s, i + 1, " ", esc, <<>>, FALSE, toks)
             ELSE IF c \in ShlexQuotes
               THEN ShlexScan(s, i + 1, c, esc, tok, quoted, toks)
             ELSE IF c = ShlexEscape
               THEN ShlexScan(s, i + 1, ShlexEscape, "a", tok, quoted, toks)
             ELSE ShlexScan(s, i + 1, "a", esc, Append(tok, c), quoted, toks)

ShlexSplit(s) == ShlexScan(s, 1, " ", "a", <<>>, FALSE, <<>>)

-----------------------------------------------------------------------------
(* check_danger.  A verdict is the record [danger, reasons]; a call that   *)
(* raises yields the value Raised instead of a verdict.                    *)

Raised == [raised |-> TRUE]

\* the loop over DANGEROUS_PATTERNS: the labels of the matching patterns,
\* in the order of the list
RECURSIVE PatternReasons(_, _)
PatternReasons(stripped, k) ==
  IF k > Len(DANGEROUS_PATTERNS)
    THEN <<>>
    ELSE (IF Search(DANGEROUS_PATTERNS[k][1], stripped)
            THEN <<DANGEROUS_PATTERNS[k][2]>>
            ELSE <<>>) \o PatternReasons(stripped, k + 1)

check_danger(cmd) ==
  LET stripped == Strip(cmd)
      r1       == PatternReasons(stripped, 1)
      toks     == IF stripped # <<>> THEN ShlexSplit(stripped) ELSE <<>>
  IN  IF toks = ShlexError
        THEN Raised
        ELSE
          LET first == IF stripped # <<>> THEN toks[1] ELSE <<>>
              r2 == IF /\ Contains(stripped, <<"s","u","d","o">>)
                       /\ first \notin ALLOWED_PREFIXES
                      THEN Append(r1, L_Sudo) ELSE r1
              r3 == IF Search(P_SystemRedirect, stripped)
                      THEN Append(r2, L_Redirect) ELSE r2
          IN  [danger |-> Len(r3) > 0, reasons |-> r3]

-----------------------------------------------------------------------------
(* state.py: the shared context record.  A state is a Python dict, here a  *)
(* function from the keys that are present to their values.  The graph is  *)
(* built as StateGraph(State): its channels are the keys State declares,   *)
(* and a key a node returns that State does not declare has no channel, so *)
(* the graph runtime stores no value for it.                               *)

StateKeys ==
  {"user_request", "last_command", "last_error", "direct_command",
   "candidate_command", "candidate_explanation", "candidate_mode",
   "danger", "danger_reasons", "approval", "user_feedback", "result",
   "dry_run", "quiet", "interactive", "displayed_candidate", "fix_decision"}

EmptyDict == [k \in {} |-> <<>>]

Has(d, k) == k \in DOMAIN d

\* d.get(k) or ""  for a text field
GetText(d, k) == IF Has(d, k) THEN d[k] ELSE <<>>

\* truth value of d.get(k) for a text field
TruthyText(d, k) == Has(d, k) /\ d[k] # <<>>

\* truth value of d.get(k) for a flag
TruthyFlag(d, k) == Has(d, k) /\ d[k] = TRUE

\* a plain dict update:  {**d, **upd}
DictUpdate(d, upd) ==
  [k \in (DOMAIN d) \cup (DOMAIN upd) |->
     IF k \in DOMAIN upd THEN upd[k] ELSE d[k]]

\* a graph whose state schema declares every key the nodes return
DeclaredKeepAll(d) == d

\* the keys of d that the graph has a channel for
Declared(d) == [k \in (DOMAIN d) \cap StateKeys |-> d[k]]

\* the graph runtime applies the partial state a node returned
Merge(st0, upd) == DictUpdate(st0, Declared(upd))

-----------------------------------------------------------------------------
(* nodes.py: the steps of the workflow, as functions from the state to the *)
(* partial state they return.                                              *)

T_run     == <<"r","u","n">>
T_explain == <<"e","x","p","l","a","i","n">>

\* route: the name of the next node, or "ValueError"
route(st0) ==
  IF TruthyText(st0, "user_request") THEN "from_english"
  ELSE IF TruthyText(st0, "last_command") /\ TruthyText(st0, "last_error")
    THEN "from_error"
  ELSE IF TruthyText(st0, "direct_command") THEN "from_direct"
  ELSE "ValueError"

from_direct(st0) ==
  LET cmd == Strip(GetText(st0, "direct_command"))
  IN  IF cmd = <<>>
        THEN [candidate_command |-> <<>>, candidate_explanation |-> <<>>]
        ELSE [candidate_command |-> cmd,
              candidate_explanation |-> <<"D","i","r","e","c","t"," ","c","o","m","m","a","n","d">>,
              candidate_mode |-> T_run,
              source |-> "direct"]

intent_keywords ==
  { <<"d","e","l","e","t","e"," ","t","h","e"," ","r","o","o","t">>, <<"r","m"," ","-","r","f"," ","/">>, <<"w","i","p","e"," ","d","i","s","k">>, <<"f","o","r","m","a","t"," ","/">>,
    <<"d","e","s","t","r","o","y"," ","a","l","l">>, <<"e","r","a","s","e"," ","a","l","l">>, <<"d","r","o","p"," ","d","a","t","a","b","a","s","e">>,
    <<"r","e","m","o","v","e"," ","a","l","l"," ","f","i","l","e","s">>, <<"s","h","r","e","d">>, <<"m","k","f","s">>, <<"r","e","b","o","o","t">>, <<"s","h","u","t","d","o","w","n">> }

L_NoCommand   == <<"N","o"," ","c","o","m","m","a","n","d"," ","g","e","n","e","r","a","t","e","d">>
L_Intent      == <<"U","s","e","r"," ","i","n","t","e","n","t"," ","a","p","p","e","a","r","s"," ","d","e","s","t","r","u","c","t","i","v","e">>
L_Explanation == <<"E","x","p","l","a","n","a","t","i","o","n"," ","i","n","d","i","c","a","t","e","s"," ","d","a","n","g","e","r">>

\* danger_check without the test of the request for destructive intent
danger_check_no_intent(st0) ==
  LET out == IF TruthyText(st0, "candidate_command")
               THEN check_danger(st0["candidate_command"])
               ELSE [danger |-> TRUE, reasons |-> <<L_NoCommand>>]
  IN  IF out = Raised
        THEN Raised
        ELSE
          LET expl == Lower(GetText(st0, "candidate_explanation"))
              byExpl   == \/ Contains(expl, <<"d","a","n","g","e","r","o","u","s">>)
                          \/ Contains(expl, <<"w","a","r","n","i","n","g">>)
                          \/ Contains(expl, <<"d","e","s","t","r","u","c","t","i","v","e">>)
              r2 == IF byExpl THEN Append(out.reasons, L_Explanation)
                              ELSE out.reasons
          IN  [danger |-> out.danger \/ byExpl, danger_reasons |-> r2]

\* danger_check that sets the flag for a red flag in the explanation but
\* does not append the reason
danger_check_flag_only(st0) ==
  LET out == IF TruthyText(st0, "candidate_command")
               THEN check_danger(st0["candidate_command"])
               ELSE [danger |-> TRUE, reasons |-> <<L_NoCommand>>]
  IN  IF out = Raised
        THEN Raised
        ELSE
          LET req  == Lower(GetText(st0, "user_request"))
              expl == Lower(GetText(st0, "candidate_explanation"))
              byIntent == \E k \in intent_keywords : Contains(req, k)
              byExpl   == \/ Contains(expl, <<"d","a","n","g","e","r","o","u","s">>)
                          \/ Contains(expl, <<"w","a","r","n","i","n","g">>)
                          \/ Contains(expl, <<"d","e","s","t","r","u","c","t","i","v","e">>)
              r1 == IF byIntent THEN Append(out.reasons, L_Intent)
                                ELSE out.reasons
          IN  [danger |-> out.danger \/ byIntent \/ byExpl,
               danger_reasons |-> r1]

\* danger_check: the partial state [danger, danger_reasons], or Raised when
\* check_danger raises
danger_check(st0) ==
  LET out == IF TruthyText(st0, "candidate_command")
               THEN check_danger(st0["candidate_command"])
               ELSE [danger |-> TRUE, reasons |-> <<L_NoCommand>>]
  IN  IF out = Raised
        THEN Raised
        ELSE
          LET req  == Lower(GetText(st0, "user_request"))
              expl == Lower(GetText(st0, "candidate_explanation"))
              byIntent == \E k \in intent_keywords : Contains(req, k)
              byExpl   == \/ Contains(expl, <<"d","a","n","g","e","r","o","u","s">>)
                          \/ Contains(expl, <<"w","a","r","n","i","n","g">>)
                          \/ Contains(expl, <<"d","e","s","t","r","u","c","t","i","v","e">>)
              r1 == IF byIntent THEN Append(out.reasons, L_Intent)
                                ELSE out.reasons
              r2 == IF byExpl THEN Append(r1, L_Explanation) ELSE r1
          IN  [danger |-> out.danger \/ byIntent \/ byExpl,
               danger_reasons |-> r2]

PlaceholderNote ==
  <<"T","h","e"," ","p","r","o","p","o","s","e","d"," ","c","o","m","m","a","n","d"," ","i","n","c","l","u","d","e","s"," ","p","l","a","c","e","h","o","l","d","e","r","s"," ","(","e",".","g",".",","," ","<",".",".",".",">",")","."," ","R","e","p","l","a","c","e"," ","t","h","e","m"," ","w","i","t","h"," ","r","e","a","l"," ","v","a","l","u","e","s"," ","a","n","d"," ","r","u","n"," ","a","g","a","i","n",".">>

\* a node that blocks in input() instead of returning
Ask == [ask |-> TRUE]

\* approval_gate without the test for placeholders
approval_gate_no_placeholder(st0) ==
  IF Has(st0, "source") /\ st0["source"] = "direct"
    THEN [approval |-> "auto"]
  ELSE IF Has(st0, "candidate_mode") /\ st0["candidate_mode"] = T_explain
    THEN [approval |-> "cancelled"]
  ELSE IF TruthyFlag(st0, "danger")
    THEN Ask
    ELSE [approval |-> "auto"]

\* approval_gate without the test for the explain mode
approval_gate_no_explain(st0) ==
  LET cmd_text == Strip(GetText(st0, "candidate_command"))
  IN  IF Has(st0, "source") /\ st0["source"] = "direct"
        THEN [approval |-> "auto"]
      ELSE IF /\ cmd_text # <<>>
              /\ Contains(cmd_text, <<"<">>)
              /\ Contains(cmd_text, <<">">>)
        THEN [approval |-> "cancelled",
              candidate_mode |-> T_explain,
              candidate_explanation |->
                IF TruthyText(st0, "candidate_explanation")
                  THEN st0["candidate_explanation"]
                  ELSE PlaceholderNote]
      ELSE IF TruthyFlag(st0, "danger")
        THEN Ask
        ELSE [approval |-> "auto"]

\* approval_gate up to its first input(): the partial state it returns
\* without asking, or the value Ask when it blocks on the human prompt
approval_gate(st0) ==
  LET cmd_text == Strip(GetText(st0, "candidate_command"))
  IN  IF Has(st0, "source") /\ st0["source"] = "direct"
        THEN [approval |-> "auto"]
      ELSE IF Has(st0, "candidate_mode") /\ st0["candidate_mode"] = T_explain
        THEN [approval |-> "cancelled"]
      ELSE IF /\ cmd_text # <<>>
              /\ Contains(cmd_text, <<"<">>)
              /\ Contains(cmd_text, <<">">>)
        THEN [approval |-> "cancelled",
              candidate_mode |-> T_explain,
              candidate_explanation |->
                IF TruthyText(st0, "candidate_explanation")
                  THEN st0["candidate_explanation"]
                  ELSE PlaceholderNote]
      ELSE IF TruthyFlag(st0, "danger")
        THEN Ask
        ELSE [approval |-> "auto"]

\* approval_gate after  input("Run this command? ...").strip().lower() :
\* the partial state it returns, or Ask when it asks for the feedback
approval_answer(raw) ==
  LET ans == Lower(Strip(raw))
  IN  IF ans \in { <<"y">>, <<"y","e","s">> } THEN [approval |-> "approved"]
      ELSE IF ans = <<"e">> THEN Ask
      ELSE [approval |-> "cancelled"]

\* approval_gate after the second input(): fb = input(...).strip()
approval_feedback(raw) ==
  [approval |-> "rejected", user_feedback |-> Strip(raw)]

-----------------------------------------------------------------------------
(* Translation.  What the transport returns is modelled by its structure:  *)
(* [data |-> d] is a text that json.loads turns into the record d, and     *)
(* [text |-> t] is prose that is not JSON and holds no braces.             *)

PlainTextNote == <<"M","o","d","e","l"," ","r","e","t","u","r","n","e","d"," ","p","l","a","i","n"," ","t","e","x","t",";"," ","r","e","v","i","e","w"," ","c","a","r","e","f","u","l","l","y",".">>

_parse_llm_json(resp) ==
  IF Has(resp, "data")
    THEN resp.data
    ELSE [command |-> Strip(resp.text),
          explanation |-> PlainTextNote,
          mode |-> T_run]

\* data.get("explanation", "").lower().startswith("model returned plain text")
IsPlainTextFallback(data) ==
  StartsWith(Lower(GetText(data, "explanation")),
             <<"m","o","d","e","l"," ","r","e","t","u","r","n","e","d"," ","p","l","a","i","n"," ","t","e","x","t">>)

\* the dict from_english and from_error return for a parsed reply
CandidateOf(data) ==
  [candidate_command |-> GetText(data, "command"),
   candidate_explanation |-> GetText(data, "explanation"),
   candidate_mode |->
     Lower(Strip(IF TruthyText(data, "mode") THEN data["mode"] ELSE T_run))]

LLMErrorPrefix == <<"L","L","M"," ","e","r","r","o","r",":"," ">>

TimeoutMessage == <<"L","L","M"," ","r","e","q","u","e","s","t"," ","t","i","m","e","d"," ","o","u","t">>

\* the dict from_english and from_error return after the loop over the
\* prompts; excs is the list holding last_exc, empty when it is None
AllAttemptsFailed(excs) ==
  IF excs # <<>>
    THEN [candidate_command |-> <<>>,
          candidate_explanation |-> LLMErrorPrefix \o excs[1],
          candidate_mode |-> T_explain]
    ELSE [candidate_command |-> <<>>,
          candidate_explanation |-> <<>>,
          candidate_mode |-> T_explain]

\* a second prompt whether or not the strict flag is set
NumPromptsBoth(strict) == 2

\* number of prompts from_english and from_error try
NumPrompts(strict) == IF strict THEN 2 ELSE 1

\* One turn of the loop  for p in prompts  of from_english / from_error,
\* after _llm_invoke_with_timeout came back with outcome, which is
\* [exc |-> message] or [msg |-> reply].  The result is [retry |-> TRUE,
\* excs |-> ..] when the loop goes on with the next prompt, and
\* [retry |-> FALSE, upd |-> partial state] when the node returns; upd is
\* Raised when data.get raises AttributeError, data being no dict.
TranslateTurn(strict, attempt, excs, outcome) ==
  LET more == attempt < NumPrompts(strict)
  IN  IF Has(outcome, "exc")
        THEN IF more
               THEN [retry |-> TRUE, excs |-> <<outcome.exc>>]
               ELSE [retry |-> FALSE,
                     upd |-> AllAttemptsFailed(<<outcome.exc>>)]
        ELSE
          LET data == _parse_llm_json(outcome.msg)
          IN  IF Has(data, "scalar")
                THEN [retry |-> FALSE, upd |-> Raised]
              ELSE IF strict /\ IsPlainTextFallback(data)
                THEN IF more
                       THEN [retry |-> TRUE, excs |-> excs]
                       ELSE [retry |-> FALSE, upd |-> AllAttemptsFailed(excs)]
                ELSE [retry |-> FALSE, upd |-> CandidateOf(data)]

\* replan after _llm_invoke_with_timeout came back with outcome
replan(outcome) ==
  IF Has(outcome, "exc")
    THEN [candidate_command |-> <<>>,
          candidate_explanation |-> LLMErrorPrefix \o outcome.exc]
    ELSE LET data == _parse_llm_json(outcome.msg)
         IN  IF Has(data, "scalar")
               THEN Raised
               ELSE [candidate_command |-> GetText(data, "command"),
                     candidate_explanation |-> GetText(data, "explanation")]

-----------------------------------------------------------------------------
(* Execution and the decision after a failure.                             *)

DryRunStdout == <<"(","d","r","y","-","r","u","n",")"," ","n","o","t"," ","e","x","e","c","u","t","e","d">>

\* dry = state.get("dry_run") is True if state.get("dry_run") is not None
\*       else (os.getenv("DRY_RUN", "1") == "1")
IsDry(st0, envDry) ==
  IF Has(st0, "dry_run") THEN st0["dry_run"] = TRUE ELSE envDry

\* whether run_command hands the command to subprocess.run
Executes(st0, envDry) ==
  TruthyText(st0, "candidate_command") /\ ~IsDry(st0, envDry)

\* run_command; proc is what subprocess.run returns when it is called
run_command(st0, envDry, proc) ==
  LET cmd == GetText(st0, "candidate_command")
  IN  IF cmd = <<>>
        THEN [result |-> [exit_code |-> 1, stdout |-> <<>>,
                          stderr |-> <<"N","o"," ","c","o","m","m","a","n","d"," ","t","o"," ","r","u","n",".">>]]
      ELSE IF IsDry(st0, envDry)
        THEN [result |-> [exit_code |-> 0, stdout |-> DryRunStdout,
                          stderr |-> <<>>]]
      ELSE IF proc.exit_code # 0
        THEN [result |-> proc,
              last_command |-> cmd,
              last_error |-> IF proc.stderr # <<>>
                               THEN proc.stderr
                               ELSE <<"(","n","o"," ","s","t","d","e","r","r"," ","c","a","p","t","u","r","e","d",")">>]
      ELSE [result |-> proc]

\* error_decision without the test of the interactive flag
error_decision_always_asks(st0) == Ask

\* error_decision up to its input(): the partial state, or Ask
error_decision(st0) ==
  IF ~TruthyFlag(st0, "interactive")
    THEN [fix_decision |-> "stop"]
    ELSE Ask

\* error_decision after  input(...).strip().lower() ; Ask: it asks again
error_answer(raw) ==
  LET ans == Lower(Strip(raw))
  IN  IF ans \in { <<"y">>, <<"y","e","s">> } THEN [fix_decision |-> "llm"]
      ELSE IF ans \in { <<"n">>, <<"n","o">>, <<>> } THEN [fix_decision |-> "stop"]
      ELSE Ask

-----------------------------------------------------------------------------
(* graph.py: the edges of the graph.                                       *)

\* the edges with from_direct sent through the danger check
EdgeDirectChecked(node) ==
  CASE node = "from_english" -> "danger_check"
    [] node = "from_error"   -> "danger_check"
    [] node = "from_direct"  -> "danger_check"
    [] node = "danger_check" -> "approval_gate"
    [] node = "replan"       -> "danger_check"

\* the unconditional edges
Edge(node) ==
  CASE node = "from_english" -> "danger_check"
    [] node = "from_error"   -> "danger_check"
    [] node = "from_direct"  -> "run"
    [] node = "danger_check" -> "approval_gate"
    [] node = "replan"       -> "danger_check"

post_approval(st0) ==
  LET decision == IF Has(st0, "approval") THEN st0["approval"] ELSE "None"
  IN  IF decision \in {"auto", "approved"} THEN "run"
      ELSE IF decision = "cancelled" THEN "END"
      ELSE "replan"

post_run(st0) ==
  IF Has(st0, "result") /\ st0["result"].exit_code # 0
    THEN "error_decision"
    ELSE "END"

post_decision(st0) ==
  IF Has(st0, "fix_decision") /\ st0["fix_decision"] = "llm"
    THEN "from_error"
    ELSE "END"

-----------------------------------------------------------------------------
(* Bounds and the inputs the environment supplies.                         *)

\* how often, in one request, the human sends the workflow round a cycle
\* (a replan at the approval prompt, a fix at the failure prompt)
MaxLoops == 1

Requests == { <<"l","i","s","t"," ","f","i","l","e","s">>, <<"W","i","p","e"," ","D","i","s","k">> }

ShellLines == { <<"l","s"," ","-","z">>, <<"r","e","b","o","o","t">> }

FailedCommand == <<"l","s"," ","-","z">>

FailedError == <<"i","n","v","a","l","i","d"," ","o","p","t","i","o","n">>

\* the commands of the replies: harmless, flagged, with a placeholder, with
\* an unbalanced quote, empty
ReplyCommands ==
  { <<"l","s"," ","-","a">>, <<"r","e","b","o","o","t">>, <<"c","a","t"," ","<","f",">">>, <<"e","c","h","o"," ","\"","h","i">>, <<>> }

\* a reply that json.loads turns into a value that is no dict: a list, a
\* number, a string, null
NotARecord == [data |-> [scalar |-> 5]]

\* what the transport can answer: a record with command, explanation and
\* mode, one without mode, one without explanation, prose, or JSON that is
\* no record
Replies ==
  {[data |-> [command |-> c, explanation |-> <<"l","i","s","t","s"," ","f","i","l","e","s">>,
              mode |-> T_run]] : c \in ReplyCommands}
  \cup {[data |-> [command |-> c, explanation |-> <<"W","a","r","n","i","n","g",":"," ","r","i","s","k","y">>]] :
          c \in ReplyCommands}
  \cup {[data |-> [command |-> c, mode |-> <<" ","E","x","p","l","a","i","n">>]] :
          c \in ReplyCommands}
  \cup {[text |-> <<"t","r","y"," ","l","s"," ","-","a">>]}
  \cup {NotARecord}

TransportFaults == { <<"c","o","n","n","e","c","t","i","o","n"," ","r","e","f","u","s","e","d">> }

ApprovalAnswers == { <<"y">>, <<" ","Y","e","s">>, <<"e">>, <<"n">>, <<>> }

Feedbacks == { <<" ","s","a","f","e","r">> }

FixAnswers == { <<"y">>, <<"N">>, <<>>, <<"w","h","a","t">> }

\* what subprocess.run can return
Procs ==
  { [exit_code |-> 0, stdout |-> <<"o","k">>, stderr |-> <<>>],
    [exit_code |-> 2, stdout |-> <<>>, stderr |-> FailedError],
    [exit_code |-> 1, stdout |-> <<>>, stderr |-> <<>>] }

\* states a caller of the compiled graph can pass to invoke
ApiStates ==
  {DictUpdate(DictUpdate(a, b), c) :
     a \in {EmptyDict, [user_request |-> <<"l","i","s","t"," ","f","i","l","e","s">>]},
     b \in {EmptyDict, [last_command |-> FailedCommand],
            [last_command |-> FailedCommand, last_error |-> FailedError]},
     c \in {EmptyDict, [direct_command |-> <<"l","s"," ","-","z">>],
            [direct_command |-> <<" ">>, strict_json |-> TRUE]}}

-----------------------------------------------------------------------------
(* The program state.                                                      *)

VARIABLES
  pc,       \* where the program is: a node of the graph, a prompt, ...
  st,       \* the state dict of the request in progress
  flags,    \* the flags dict of the interactive shell of cli.py
  envDry,   \* os.getenv("DRY_RUN", "1") == "1"
  tr,       \* the translation in progress (from_english, from_error, replan)
  worker,   \* the worker thread of _llm_invoke_with_timeout
  ret,      \* what a function called outside the graph returned
  hist,     \* what happened in this request (history, read by no action)
  dmn,      \* one client connection of daemon.py
  term      \* the output-context tracker of terminal.py's AITerminal

vars == <<pc, st, flags, envDry, tr, worker, ret, hist, dmn, term>>

TranslationNodes == {"from_english", "from_error", "replan"}

IdleTr == [phase |-> "idle"]

NoWorker == [status |-> "none"]

NoRet == [none |-> TRUE]

\* no connection is being served
NoDmn == [phase |-> "none"]

\* no terminal is running
NoTerm == [phase |-> "none"]

NewHist(via) ==
  [via |-> via,          \* who started the request
   routed |-> "None",    \* what route returned
   origin |-> "None",    \* the node that produced the current candidate
   visited |-> {},       \* the nodes entered
   calls |-> 0,          \* invocations of the transport
   prompts |-> 0,        \* calls of input()
   asked |-> FALSE,      \* approval_gate prompted for the current candidate
   answer |-> <<>>,      \* the answer to that prompt
   gated |-> FALSE,      \* approval_gate returned for the current candidate
   ran |-> FALSE,        \* run_command was invoked for the current candidate
   executed |-> {},      \* the commands handed to subprocess.run
   allFailed |-> FALSE,  \* every attempt of the last translation failed
   loops |-> 0]          \* replans and fixes the human asked for

Init ==
  /\ pc \in {"cli", "caller"}
  /\ st = EmptyDict
  /\ flags = EmptyDict
  /\ envDry \in BOOLEAN
  /\ tr = IdleTr
  /\ worker = NoWorker
  /\ ret = NoRet
  /\ hist = NewHist("None")
  /\ dmn = NoDmn
  /\ term = NoTerm

-----------------------------------------------------------------------------
(* cli.py: how a request reaches the graph.                                *)

\* main with --english
CliEnglish ==
  /\ pc = "cli"
  /\ \E req \in Requests :
       st' = Declared([user_request |-> req])
  /\ pc' = "router"
  /\ hist' = NewHist("english")
  /\ UNCHANGED <<flags, envDry, tr, worker, ret, dmn, term>>

\* main with --fix; cmd, err, intent are empty when the option is not given
CliFix ==
  /\ pc = "cli"
  /\ \E cmd \in {<<>>, FailedCommand}, err \in {<<>>, FailedError},
        intent \in {<<>>} \cup Requests :
       IF cmd = <<>> \/ err = <<>>
         THEN /\ pc' = "rejected"
              /\ st' = st
         ELSE /\ pc' = "router"
              /\ st' = Declared(
                   IF intent # <<>>
                     THEN [last_command |-> cmd, last_error |-> err,
                           user_request |-> intent]
                     ELSE [last_command |-> cmd, last_error |-> err])
  /\ hist' = NewHist("fix")
  /\ UNCHANGED <<flags, envDry, tr, worker, ret, dmn, term>>

\* main without options starts _interactive_shell
CliShell ==
  /\ pc = "cli"
  /\ pc' = "shell"
  /\ flags' = [dry_run |-> FALSE, quiet |-> FALSE, interactive |-> TRUE]
  /\ UNCHANGED <<st, envDry, tr, worker, ret, hist, dmn, term>>

ShellInput ==
  { <<"/","r","u","n">>, <<"/","d","r","y">>, <<"/","h","e","l","p">>, <<"/","q">>,
    <<"/","e">>, <<"/","x">>, <<>> }
  \cup {<<"/","e"," ">> \o r : r \in Requests}
  \cup ShellLines

\* what the loop of _interactive_shell does with a line
ShellCommand(line) ==
  IF line = <<>> THEN "continue"
  ELSE IF StartsWith(line, <<"/">>)
    THEN IF line \in { <<"/","q">>, <<"/","q","u","i","t">>, <<"/","e","x","i","t">> } THEN "break"
         ELSE IF line = <<"/","h","e","l","p">> THEN "continue"
         ELSE IF line = <<"/","r","u","n">> THEN "run"
         ELSE IF line = <<"/","d","r","y">> THEN "dry"
         ELSE IF line = <<"/","q","u","i","e","t">> THEN "quiet"
         ELSE IF line = <<"/","v","e","r","b","o","s","e">> THEN "verbose"
         ELSE IF StartsWith(line, <<"/","e">>)
           THEN IF Strip(SubSeq(line, 3, Len(line))) = <<>>
                  THEN "continue"
                  ELSE "english"
         ELSE "continue"
    ELSE "direct"

\* one turn of the loop of _interactive_shell; raw is what input() returns
ShellLine ==
  /\ pc = "shell"
  /\ \E raw \in ShellInput :
       LET line == Strip(raw)
           what == ShellCommand(line)
       IN  /\ pc' = CASE what = "break" -> "exit"
                      [] what \in {"english", "direct"} -> "router"
                      [] OTHER -> pc
           /\ flags' = CASE what = "run"     -> [flags EXCEPT !["dry_run"] = FALSE]
                         [] what = "dry"     -> [flags EXCEPT !["dry_run"] = TRUE]
                         [] what = "quiet"   -> [flags EXCEPT !["quiet"] = TRUE]
                         [] what = "verbose" -> [flags EXCEPT !["quiet"] = FALSE]
                         [] OTHER -> flags
           /\ st' = CASE what = "english" ->
                           Declared(DictUpdate(
                             [user_request |->
                                Strip(SubSeq(line, 3, Len(line)))], flags))
                      [] what = "direct" ->
                           Declared(DictUpdate([direct_command |-> line],
                                               flags))
                      [] OTHER -> st
           /\ hist' = IF what \in {"english", "direct"}
                        THEN NewHist("shell") ELSE hist
  /\ UNCHANGED <<envDry, tr, worker, ret, dmn, term>>

\* a caller of build_graph().invoke other than cli.py
ApiInvoke ==
  /\ pc = "cli"
  /\ \E d \in ApiStates : st' = Declared(d)
  /\ pc' = "router"
  /\ hist' = NewHist("api")
  /\ UNCHANGED <<flags, envDry, tr, worker, ret, dmn, term>>

\* app.invoke returned and _print_summary printed its result, which is
\* then dropped: the one-shot modes end, the shell reads the next line
Finish ==
  /\ pc = "END"
  /\ pc' = IF hist.via = "shell" THEN "shell" ELSE "exit"
  /\ st' = EmptyDict
  /\ hist' = NewHist("None")
  /\ UNCHANGED <<flags, envDry, tr, worker, ret, dmn, term>>

-----------------------------------------------------------------------------
(* The nodes of the graph that call no transport.                          *)

Enter(h, node) == [h EXCEPT !.visited = @ \cup {node}]

\* the entry node and its conditional edge
Route ==
  /\ pc = "router"
  /\ pc' = IF route(st) = "ValueError" THEN "raised" ELSE route(st)
  /\ hist' = [hist EXCEPT !.routed = route(st)]
  /\ UNCHANGED <<st, flags, envDry, tr, worker, ret, dmn, term>>

FromDirect ==
  /\ pc = "from_direct"
  /\ st' = Merge(st, from_direct(st))
  /\ pc' = Edge("from_direct")
  /\ hist' = [Enter(hist, "from_direct") EXCEPT
                !.origin = "from_direct", !.asked = FALSE,
                !.gated = FALSE, !.ran = FALSE]
  /\ UNCHANGED <<flags, envDry, tr, worker, ret, dmn, term>>

DangerCheck ==
  /\ pc = "danger_check"
  /\ IF danger_check(st) = Raised
       THEN pc' = "raised" /\ st' = st
       ELSE /\ st' = Merge(st, danger_check(st))
            /\ pc' = Edge("danger_check")
  /\ hist' = Enter(hist, "danger_check")
  /\ UNCHANGED <<flags, envDry, tr, worker, ret, dmn, term>>

\* approval_gate up to the point where it returns or blocks in input()
ApprovalGate ==
  /\ pc = "approval_gate"
  /\ IF approval_gate(st) = Ask
       THEN /\ pc' = "approval_prompt"
            /\ st' = st
            /\ hist' = [Enter(hist, "approval_gate") EXCEPT
                          !.asked = TRUE, !.prompts = 1]
       ELSE /\ st' = Merge(st, approval_gate(st))
            /\ pc' = post_approval(st')
            /\ hist' = [Enter(hist, "approval_gate") EXCEPT !.gated = TRUE]
  /\ UNCHANGED <<flags, envDry, tr, worker, ret, dmn, term>>

\* the human answers "Run this command? [y/N] ..."
ApprovalAnswer ==
  /\ pc = "approval_prompt"
  /\ \E raw \in ApprovalAnswers :
       IF approval_answer(raw) = Ask
         THEN /\ hist.loops < MaxLoops
              /\ pc' = "feedback_prompt"
              /\ st' = st
              /\ hist' = [hist EXCEPT !.answer = raw]
         ELSE /\ st' = Merge(st, approval_answer(raw))
              /\ pc' = post_approval(st')
              /\ hist' = [hist EXCEPT !.answer = raw, !.gated = TRUE]
  /\ UNCHANGED <<flags, envDry, tr, worker, ret, dmn, term>>

\* the human answers "Describe adjustments for a safer alternative ..."
ApprovalFeedback ==
  /\ pc = "feedback_prompt"
  /\ \E raw \in Feedbacks : st' = Merge(st, approval_feedback(raw))
  /\ pc' = post_approval(st')
  /\ hist' = [hist EXCEPT !.gated = TRUE, !.loops = @ + 1]
  /\ UNCHANGED <<flags, envDry, tr, worker, ret, dmn, term>>

RunCommand ==
  /\ pc = "run"
  /\ \E proc \in Procs : st' = Merge(st, run_command(st, envDry, proc))
  /\ pc' = post_run(st')
  /\ hist' = [Enter(hist, "run") EXCEPT
                !.ran = TRUE,
                !.executed = IF Executes(st, envDry)
                               THEN @ \cup {st["candidate_command"]}
                               ELSE @]
  /\ UNCHANGED <<flags, envDry, tr, worker, ret, dmn, term>>

\* error_decision up to the point where it returns or blocks in input()
ErrorDecision ==
  /\ pc = "error_decision"
  /\ IF error_decision(st) = Ask
       THEN /\ pc' = "fix_prompt"
            /\ st' = st
            /\ hist' = [Enter(hist, "error_decision") EXCEPT !.prompts = 1]
       ELSE /\ st' = Merge(st, error_decision(st))
            /\ pc' = post_decision(st')
            /\ hist' = Enter(hist, "error_decision")
  /\ UNCHANGED <<flags, envDry, tr, worker, ret, dmn, term>>

\* the human answers "Ask the AI to suggest a fix? [y/N]"
FixAnswer ==
  /\ pc = "fix_prompt"
  /\ \E raw \in FixAnswers :
       IF error_answer(raw) = Ask
         THEN UNCHANGED <<pc, st, hist>>
         ELSE /\ error_answer(raw).fix_decision = "llm"
                   => hist.loops < MaxLoops
              /\ st' = Merge(st, error_answer(raw))
              /\ pc' = post_decision(st')
              /\ hist' = [hist EXCEPT
                            !.loops = IF error_answer(raw).fix_decision = "llm"
                                        THEN @ + 1 ELSE @]
  /\ UNCHANGED <<flags, envDry, tr, worker, ret, dmn, term>>

\* input() raises EOFError when the input stream is closed
PromptEOF ==
  /\ pc \in {"approval_prompt", "feedback_prompt", "fix_prompt"}
  /\ pc' = "raised"
  /\ UNCHANGED <<st, flags, envDry, tr, worker, ret, hist, dmn, term>>

-----------------------------------------------------------------------------
(* The translation nodes and _llm_invoke_with_timeout.  The caller submits *)
(* llm.invoke to a pool of one worker inside a with block and waits for    *)
(* the future with a timeout; leaving the with block, by return or by the  *)
(* TimeoutError, runs the pool's __exit__, which is shutdown(wait=True).   *)

\* strict = bool(state.get("strict_json"))
Strict(st0) == TruthyFlag(st0, "strict_json")

\* the keys the node reads with state[...] before it calls the transport
RequiredKeys(node) ==
  CASE node = "from_english" -> {"user_request"}
    [] node = "from_error"   -> {"last_command", "last_error"}
    [] node = "replan"       -> {}

\* the node starts: it builds its prompts and submits the first one
TranslateBegin ==
  /\ pc \in TranslationNodes
  /\ tr.phase = "idle"
  /\ IF RequiredKeys(pc) \subseteq DOMAIN st
       THEN /\ tr' = [phase |-> "waiting", node |-> pc,
                      strict |-> pc # "replan" /\ Strict(st),
                      attempt |-> 1, excs |-> <<>>, fails |-> 0]
            /\ worker' = [status |-> "running"]
            /\ pc' = pc
            /\ hist' = [Enter(hist, pc) EXCEPT !.calls = @ + 1]
       ELSE /\ pc' = "raised"
            /\ hist' = Enter(hist, pc)
            /\ UNCHANGED <<tr, worker>>
  /\ UNCHANGED <<st, flags, envDry, ret, dmn, term>>

\* llm.invoke returns in the worker
WorkerReturns ==
  /\ worker.status = "running"
  /\ \E r \in Replies : worker' = [status |-> "returned", val |-> r]
  /\ UNCHANGED <<pc, st, flags, envDry, tr, ret, hist, dmn, term>>

\* llm.invoke raises in the worker
WorkerRaises ==
  /\ worker.status = "running"
  /\ \E e \in TransportFaults : worker' = [status |-> "raised", val |-> e]
  /\ UNCHANGED <<pc, st, flags, envDry, tr, ret, hist, dmn, term>>

\* future.result(timeout=...) raises: TimeoutError leaves the with block,
\* whose __exit__ waits for the worker
TimeoutExpires ==
  /\ tr.phase = "waiting"
  /\ worker.status = "running"
  /\ tr' = [tr EXCEPT !.phase = "joining"]
  /\ UNCHANGED <<pc, st, flags, envDry, worker, ret, hist, dmn, term>>

\* who calls a translation node as a plain function: terminal.py ("call")
\* and the two handlers of daemon.py
DirectCallers == {"call", "preexec", "postexec"}

\* the node gives its partial state to whoever called it: the graph
\* runtime, or a caller outside the graph
Deliver(node, upd, failed) ==
  /\ tr' = IdleTr
  /\ worker' = NoWorker
  /\ hist' = [hist EXCEPT !.origin = node, !.asked = FALSE, !.gated = FALSE,
                          !.ran = FALSE, !.allFailed = failed]
  /\ IF upd = Raised
       THEN \* the node raises: to the handler of daemon.py, which reports it,
            \* or out of terminal.py's call or of the graph's invoke
            /\ ret' = Raised
            /\ pc' = IF hist.via \in {"preexec", "postexec"} THEN "returned" ELSE "raised"
            /\ st' = st
     ELSE IF hist.via \in DirectCallers
       THEN /\ ret' = upd
            /\ pc' = "returned"
            /\ st' = st
       ELSE /\ st' = Merge(st, upd)
            /\ pc' = Edge(node)
            /\ ret' = ret

\* the node goes on after _llm_invoke_with_timeout came back with outcome
AfterInvoke(outcome) ==
  LET fails == tr.fails + (IF Has(outcome, "exc") THEN 1 ELSE 0)
  IN  IF tr.node = "replan"
        THEN Deliver("replan", replan(outcome), fails = 1)
        ELSE
          LET turn == TranslateTurn(tr.strict, tr.attempt, tr.excs, outcome)
          IN  IF turn.retry
                THEN /\ tr' = [tr EXCEPT !.phase = "waiting",
                                         !.attempt = @ + 1,
                                         !.excs = turn.excs,
                                         !.fails = fails]
                     /\ worker' = [status |-> "running"]
                     /\ hist' = [hist EXCEPT !.calls = @ + 1]
                     /\ UNCHANGED <<pc, st, ret>>
                ELSE Deliver(tr.node, turn.upd, fails = tr.attempt)

\* future.result returns the reply, or raises what llm.invoke raised
InvokeReturns ==
  /\ tr.phase = "waiting"
  /\ worker.status \in {"returned", "raised"}
  /\ AfterInvoke(IF worker.status = "returned"
                   THEN [msg |-> worker.val]
                   ELSE [exc |-> worker.val])
  /\ UNCHANGED <<flags, envDry, dmn, term>>

\* the worker ended after the timeout: __exit__ returns, the TimeoutError
\* reaches the node, what the worker returned is dropped
JoinCompletes ==
  /\ tr.phase = "joining"
  /\ worker.status \in {"returned", "raised"}
  /\ AfterInvoke([exc |-> TimeoutMessage])
  /\ UNCHANGED <<flags, envDry, dmn, term>>

\* terminal.py and daemon.py call the translation nodes as plain functions
CallStates ==
  {[user_request |-> r, dry_run |-> FALSE, quiet |-> TRUE,
    strict_json |-> TRUE] : r \in Requests}
  \cup {[user_request |-> r] : r \in Requests}
  \cup {[last_command |-> FailedCommand, last_error |-> FailedError,
         dry_run |-> FALSE, quiet |-> TRUE, strict_json |-> TRUE],
        [last_command |-> FailedCommand, last_error |-> FailedError]}
  \cup {[candidate_command |-> c, user_feedback |-> f] :
          c \in ReplyCommands \ {<<>>}, f \in Feedbacks}

CalledNode(d) ==
  IF Has(d, "user_request") THEN "from_english"
  ELSE IF Has(d, "last_command") THEN "from_error"
  ELSE "replan"

CallTranslate ==
  /\ pc = "caller"
  /\ \E d \in CallStates :
       /\ st' = d
       /\ pc' = CalledNode(d)
  /\ hist' = NewHist("call")
  /\ UNCHANGED <<flags, envDry, tr, worker, ret, dmn, term>>

-----------------------------------------------------------------------------
Next ==
  \/ CliEnglish \/ CliFix \/ CliShell \/ ShellLine \/ ApiInvoke \/ Finish
  \/ Route \/ FromDirect \/ DangerCheck
  \/ ApprovalGate \/ ApprovalAnswer \/ ApprovalFeedback
  \/ RunCommand \/ ErrorDecision \/ FixAnswer \/ PromptEOF
  \/ TranslateBegin \/ WorkerReturns \/ WorkerRaises \/ TimeoutExpires
  \/ InvokeReturns \/ JoinCompletes \/ CallTranslate

Spec == Init /\ [][Next]_vars

\* the steps of the runs in which no prompt meets a closed input stream
NextLive ==
  \/ CliEnglish \/ CliFix \/ CliShell \/ ShellLine \/ ApiInvoke \/ Finish
  \/ Route \/ FromDirect \/ DangerCheck
  \/ ApprovalGate \/ ApprovalAnswer \/ ApprovalFeedback
  \/ RunCommand \/ ErrorDecision \/ FixAnswer
  \/ TranslateBegin \/ WorkerReturns \/ WorkerRaises \/ TimeoutExpires
  \/ InvokeReturns \/ JoinCompletes \/ CallTranslate

\* the graph runtime runs the next node, every call of the transport returns
\* or raises, and the human answers every prompt with a line the prompt
\* accepts; replans and fixes are bounded by MaxLoops
SpecLive == Init /\ [][NextLive]_vars /\ WF_vars(NextLive)

-----------------------------------------------------------------------------
(* The classifier on its own: terminal.py calls check_danger, daemon.py    *)
(* calls danger_check on a dict that holds the command only, the graph     *)
(* calls danger_check on its state.  The commands are a first part and up  *)
(* to MaxArgs further parts, joined by blanks.                             *)

MaxArgs == 2

CommandHeads ==
  { <<"l","s">>, <<" ","c","a","t">>, <<"e","c","h","o"," ","x">>, <<"r","m">>, <<"s","u","d","o"," ","l","s">>, <<"c","u","r","l"," ","x">>,
    <<"m","k","f","s",".","e","x","t","4"," ","/","d","e","v","/","s","d","a","1">>, <<":","(",")","{"," ",":","|",":","&"," ","}",";",":">> }

CommandArgs ==
  { <<"-","r","f">>, <<"/">>, <<"|"," ","b","a","s","h">>, <<">"," ","/","e","t","c","/","x">>, <<"r","e","b","o","o","t">>, <<"s","u","d","o">>,
    <<"\"">>, <<"*">> }

RECURSIVE CommandsWith(_)
CommandsWith(n) ==
  IF n = 0
    THEN CommandHeads
    ELSE CommandsWith(n - 1)
         \cup {c \o <<" ">> \o a : c \in CommandsWith(n - 1), a \in CommandArgs}

Commands == CommandsWith(MaxArgs) \cup {<<>>}

\* what the graph's state holds besides the command when danger_check runs
ClassifyContexts ==
  { EmptyDict,
    [user_request |-> <<"W","i","p","e"," ","D","i","s","k">>],
    [user_request |-> <<"l","i","s","t"," ","f","i","l","e","s">>,
     candidate_explanation |-> <<"W","a","r","n","i","n","g",":"," ","r","i","s","k","y">>] }

InitClassify ==
  /\ pc = "classifier"
  /\ st \in {[candidate_command |-> c] : c \in Commands}
  /\ flags = EmptyDict
  /\ envDry = FALSE
  /\ tr = IdleTr
  /\ worker = NoWorker
  /\ ret = NoRet
  /\ hist = NewHist("None")
  /\ dmn = NoDmn
  /\ term = NoTerm

\* terminal.py: danger_result = check_danger(cmd)
CallCheckDanger ==
  /\ pc = "classifier"
  /\ ret' = check_danger(st["candidate_command"])
  /\ pc' = "classified"
  /\ UNCHANGED <<st, flags, envDry, tr, worker, hist, dmn, term>>

\* daemon.py and the graph: d = danger_check(state)
CallDangerCheck ==
  /\ pc = "classifier"
  /\ \E ctx \in ClassifyContexts : st' = DictUpdate(st, ctx)
  /\ ret' = danger_check(st')
  /\ pc' = "danger_checked"
  /\ UNCHANGED <<flags, envDry, tr, worker, hist, dmn, term>>

\* the commands classified between two classifications of the same text: a
\* flagged one and one that shlex.split rejects
OtherCommands == {<<"r","e","b","o","o","t">>, <<"s","u","d","o"," ","\"">>}

\* a call of check_danger whose list of reasons goes on from the last call's
call_check_danger_keeping(last, cmd) ==
  LET r == check_danger(cmd)
  IN IF r = Raised \/ last = Raised \/ "reasons" \notin DOMAIN last
       THEN r
       ELSE [danger |-> Len(last.reasons \o r.reasons) > 0,
             reasons |-> last.reasons \o r.reasons]

\* a call of check_danger after the call that returned last: reasons is a
\* new list in every call and the function reads the command and the two
\* module constants only, which nothing assigns
call_check_danger(last, cmd) == check_danger(cmd)

\* another text is classified after the first classification
ClassifyOther ==
  /\ pc = "classified"
  /\ \E other \in OtherCommands : ret' = call_check_danger(ret, other)
  /\ hist' = [first |-> ret] @@ hist
  /\ pc' = "between"
  /\ UNCHANGED <<st, flags, envDry, tr, worker, dmn, term>>

\* the graph's danger_check node runs after the first classification
ClassifyStep ==
  /\ pc = "classified"
  /\ \E ctx \in ClassifyContexts : st' = DictUpdate(st, ctx)
  /\ ret' = danger_check(st')
  /\ hist' = [first |-> ret] @@ hist
  /\ pc' = "between"
  /\ UNCHANGED <<flags, envDry, tr, worker, dmn, term>>

\* the first text is classified again
ClassifyAgain ==
  /\ pc = "between"
  /\ ret' = call_check_danger(ret, st["candidate_command"])
  /\ pc' = "reclassified"
  /\ UNCHANGED <<st, flags, envDry, tr, worker, hist, dmn, term>>

NextClassify ==
  \/ CallCheckDanger
  \/ CallDangerCheck
  \/ ClassifyOther
  \/ ClassifyStep
  \/ ClassifyAgain

SpecClassify == InitClassify /\ [][NextClassify]_vars

-----------------------------------------------------------------------------
(* daemon.py: one client connection served by _serve_client.  The bytes on *)
(* the wire are units: a blank, a newline, a byte of no structured text,   *)
(* or the text of one JSON value (which holds no raw newline).             *)

SP == [ch |-> " "]

NL == [ch |-> "\n"]

Junk == [ch |-> "x"]

J(v) == [json |-> v]

\* how many request lines the client sends on the connection
MaxLines == 2

\* the most request lines of one connection that ask the model for a translation
MaxCalls == 1

\* request lines whose handler calls from_english or from_error, without their newline
CallingLines ==
  { <<J([event |-> "preexec", cmd |-> <<"/","e"," ","W","i","p","e"," ","D","i","s","k"," ">>])>>,
    <<J([event |-> "postexec", cmd |-> <<"l","s"," ","-","z">>, exit_code |-> 2,
         stderr_tail |-> <<"i","n","v","a","l","i","d"," ","o","p","t","i","o","n">>])>> }

\* request lines answered without the model, without their newline
PlainLines ==
  { <<SP, J([event |-> "preexec", cmd |-> <<"r","e","b","o","o","t">>, cwd |-> "/tmp"])>>,
    <<J([event |-> "preexec", cmd |-> <<" ">>])>>,
    <<J([event |-> "postexec", cmd |-> <<"l","s"," ","-","a">>, exit_code |-> 0])>>,
    <<J([event |-> "ping"])>>,
    <<J([scalar |-> 5])>>,
    <<Junk, Junk>>,
    <<SP>> }

\* the request lines a client sends
WireLines == CallingLines \cup PlainLines

\* what a client sends on one connection: at most n lines, at most c of them
\* asking the model
RECURSIVE StreamsOf(_, _)
StreamsOf(n, c) ==
  IF n = 0
    THEN {<<>>}
    ELSE StreamsOf(n - 1, c)
         \cup {s \o l \o <<NL>> : s \in StreamsOf(n - 1, c), l \in PlainLines}
         \cup IF c = 0
                THEN {}
                ELSE {s \o l \o <<NL>> : s \in StreamsOf(n - 1, c - 1), l \in CallingLines}

\* os.getcwd() of the daemon
DaemonCwd == "/srv"

\* the index of the last newline of buf, 0 when there is none
LastNL(buf, i) ==
  IF \A j \in i..Len(buf) : buf[j] # NL
    THEN 0
    ELSE CHOOSE j \in i..Len(buf) :
           buf[j] = NL /\ \A m \in (j + 1)..Len(buf) : buf[m] # NL

\* the index of the first newline of buf, 0 when there is none
RECURSIVE FirstNL(_, _)
FirstNL(buf, i) ==
  IF i > Len(buf) THEN 0
  ELSE IF buf[i] = NL THEN i
  ELSE FirstNL(buf, i + 1)

\* not line.strip()
BlankLine(line) == \A i \in 1..Len(line) : line[i] = SP

RECURSIVE TrimLeft(_)
TrimLeft(line) ==
  IF line # <<>> /\ Head(line) = SP THEN TrimLeft(Tail(line)) ELSE line

RECURSIVE TrimRight(_)
TrimRight(line) ==
  IF line # <<>> /\ line[Len(line)] = SP
    THEN TrimRight(SubSeq(line, 1, Len(line) - 1))
    ELSE line

JsonError == [invalid |-> TRUE]

\* json.loads(line.decode(...)): the value of the one JSON text the line
\* holds between blanks, or JsonError
JsonLoads(line) ==
  LET body == TrimRight(TrimLeft(line))
  IN  IF Len(body) = 1 /\ "json" \in DOMAIN body[1]
        THEN body[1].json
        ELSE JsonError

\* the value is a JSON object, so that data.get exists
IsObject(v) == "scalar" \notin DOMAIN v

ErrorResponse(what) == [error |-> what]

\* payload.get("cwd") or os.getcwd()
CwdOf(payload) == IF Has(payload, "cwd") THEN payload["cwd"] ELSE DaemonCwd

\* _handle_preexec up to its call of from_english or of danger_check
\*   [call |-> state]   : it calls from_english(state)
\*   [classify |-> cmd] : it calls danger_check on cmd
preexec_begin(payload) ==
  LET cmd == Strip(GetText(payload, "cmd"))
  IN  IF StartsWith(cmd, <<"/","e"," ">>)
        THEN [call |-> [user_request |-> Strip(SubSeq(cmd, 4, Len(cmd)))]]
        ELSE [classify |-> cmd]

\* _handle_preexec after from_english returned out, up to its return or
\* its call of danger_check
preexec_end(out) ==
  LET candidate == Strip(GetText(out, "candidate_command"))
      expl == GetText(out, "candidate_explanation")
  IN  IF candidate = <<>>
        THEN [resp |-> [action |-> "message",
                        message |-> IF expl # <<>> THEN expl
                                    ELSE <<"N","o"," ","r","u","n","n","a","b","l","e"," ","c","o","m","m","a","n","d"," ","p","r","o","d","u","c","e","d",".">>]]
        ELSE [classify |-> candidate]

\* what _handle_preexec returns after danger_check returned d for cmd;
\* out is what from_english returned, NoRet when it was not called
preexec_return(payload, out, cmd, d) ==
  IF out = NoRet
    THEN [action |-> "proceed",
          command |-> cmd,
          require_confirmation |-> d.danger,
          danger_reasons |-> d.danger_reasons,
          cwd |-> CwdOf(payload)]
    ELSE [action |-> "replace",
          command |-> cmd,
          explanation |-> GetText(out, "candidate_explanation"),
          require_confirmation |-> d.danger,
          danger_reasons |-> d.danger_reasons,
          cwd |-> CwdOf(payload)]

\* int(payload.get("exit_code") or 0)
ExitCodeOf(payload) ==
  IF Has(payload, "exit_code") THEN payload["exit_code"] ELSE 0

\* _handle_postexec up to its return or its call of from_error
postexec_begin(payload) ==
  IF ExitCodeOf(payload) = 0
    THEN [resp |-> [action |-> "ok"]]
    ELSE [call |-> [last_command |-> GetText(payload, "cmd"),
                    last_error |-> GetText(payload, "stderr_tail")]]

\* _handle_postexec after from_error returned out, up to its return or its
\* call of danger_check
postexec_end(out) ==
  LET suggestion == Strip(GetText(out, "candidate_command"))
  IN  IF suggestion = <<>>
        THEN [resp |-> [action |-> "no_fix",
                        explanation |-> GetText(out, "candidate_explanation")]]
        ELSE [classify |-> suggestion]

\* what _handle_postexec returns after danger_check returned d
postexec_return(out, suggestion, d) ==
  [action |-> "suggest_fix",
   suggested_command |-> suggestion,
   explanation |-> GetText(out, "candidate_explanation"),
   danger |-> d.danger,
   danger_reasons |-> d.danger_reasons]

\* _handle_event: the handler the event names, "AttributeError" when the
\* value has no get, "unknown" otherwise
_handle_event(data) ==
  IF ~IsObject(data) THEN "AttributeError"
  ELSE IF Has(data, "event") /\ data["event"] = "preexec" THEN "preexec"
  ELSE IF Has(data, "event") /\ data["event"] = "postexec" THEN "postexec"
  ELSE "unknown"

\* what _serve_client does with a line that is not blank, up to the
\* response or to the handler's first call:
\*   [req, via, resp]     : the response it sends
\*   [req, via, call]     : the state the handler passes to translation
\*   [req, via, classify] : the command the handler passes to danger_check
serve_line(line) ==
  LET req == JsonLoads(line)
      which == _handle_event(req)
  IN  IF req = JsonError
        THEN [req |-> req, via |-> "None",
              resp |-> ErrorResponse("Invalid JSON")]
      ELSE IF which = "AttributeError"
        THEN [req |-> req, via |-> "None", resp |-> ErrorResponse("exception")]
      ELSE IF which = "unknown"
        THEN [req |-> req, via |-> "None",
              resp |-> ErrorResponse("Unknown event")]
      ELSE IF which = "preexec"
        THEN [req |-> req, via |-> which] @@ preexec_begin(req)
        ELSE [req |-> req, via |-> which] @@ postexec_begin(req)

InitDaemon ==
  /\ pc = "d_recv"
  /\ st = EmptyDict
  /\ flags = EmptyDict
  /\ envDry = FALSE
  /\ tr = IdleTr
  /\ worker = NoWorker
  /\ ret = NoRet
  /\ hist = NewHist("None")
  /\ \E s \in StreamsOf(MaxLines, MaxCalls) :
       dmn = [phase |-> "open",
              sent |-> s,       \* everything the client sends before it closes
              inbox |-> s,      \* what conn.recv has not returned yet
              buf |-> <<>>,     \* buf
              seen |-> <<>>,    \* the lines split off buf (history)
              out |-> <<>>,     \* the responses given to conn.sendall
              req |-> JsonError,   \* the request being handled
              got |-> NoRet]    \* what translation returned for it
  /\ term = NoTerm

\* chunk = conn.recv(65536): some of the bytes the client sent
DaemonRecv ==
  /\ pc = "d_recv"
  /\ dmn.inbox # <<>>
  /\ \E n \in 1..Len(dmn.inbox) :
       dmn' = [dmn EXCEPT !.buf = @ \o SubSeq(dmn.inbox, 1, n),
                          !.inbox = SubSeq(dmn.inbox, n + 1, Len(dmn.inbox))]
  /\ pc' = "d_lines"
  /\ UNCHANGED <<st, flags, envDry, tr, worker, ret, hist, term>>

\* conn.recv returns b"": the client closed, the loop breaks
DaemonEOF ==
  /\ pc = "d_recv"
  /\ dmn.inbox = <<>>
  /\ pc' = "d_closed"
  /\ dmn' = [dmn EXCEPT !.phase = "closed"]
  /\ UNCHANGED <<st, flags, envDry, tr, worker, ret, hist, term>>

\* a handler that gives every request to run_command
handler_calls_run(done) == "run"

\* where the handler of a request goes first: into a translation node,
\* into the danger check, or back to the loop with its response
handler_calls(done) ==
  IF Has(done, "call")
    THEN IF done.via = "preexec" THEN "from_english" ELSE "from_error"
  ELSE IF Has(done, "classify") THEN "d_classify"
  ELSE "d_lines"

\* the inner loop took line off buf, whose remainder is rest
DaemonHandle(line, rest) ==
  LET done == serve_line(line)
      d1 == [dmn EXCEPT !.buf = rest, !.seen = Append(@, line), !.got = NoRet]
  IN  IF BlankLine(line)
        THEN /\ dmn' = [d1 EXCEPT !.req = JsonError]
             /\ hist' = NewHist("None")
             /\ UNCHANGED <<pc, st>>
        ELSE /\ pc' = handler_calls(done)
             /\ hist' = NewHist(done.via)
             /\ IF Has(done, "call")
                  THEN /\ dmn' = [d1 EXCEPT !.req = done.req]
                       /\ st' = done.call
                ELSE IF Has(done, "classify")
                  THEN /\ dmn' = [d1 EXCEPT !.req = done.req]
                       /\ st' = [candidate_command |-> done.classify]
                  ELSE /\ dmn' = [d1 EXCEPT !.req = done.req,
                                            !.out = Append(@, done.resp)]
                       /\ st' = st

\* one turn of  while b"\n" in buf : split a line off, skip it when blank,
\* parse it, and handle it up to the handler's return or first call
DaemonLine ==
  /\ pc = "d_lines"
  /\ IF FirstNL(dmn.buf, 1) = 0
       THEN /\ pc' = "d_recv"
            /\ UNCHANGED <<dmn, st, hist>>
       ELSE DaemonHandle(SubSeq(dmn.buf, 1, FirstNL(dmn.buf, 1) - 1),
                         SubSeq(dmn.buf, FirstNL(dmn.buf, 1) + 1,
                                Len(dmn.buf)))
  /\ UNCHANGED <<flags, envDry, tr, worker, ret, term>>

\* from_english or from_error returned to the handler, which returns or
\* goes on to danger_check
DaemonTranslated ==
  /\ pc = "returned"
  /\ hist.via \in {"preexec", "postexec"}
  /\ LET done == IF ret = Raised THEN [resp |-> ErrorResponse("exception")]
                 ELSE IF hist.via = "preexec" THEN preexec_end(ret)
                                               ELSE postexec_end(ret)
     IN  IF Has(done, "classify")
           THEN /\ dmn' = [dmn EXCEPT !.got = ret]
                /\ st' = [candidate_command |-> done.classify]
                /\ pc' = "d_classify"
           ELSE /\ dmn' = [dmn EXCEPT !.got = ret,
                                      !.out = Append(@, done.resp)]
                /\ st' = st
                /\ pc' = "d_lines"
  /\ ret' = NoRet
  /\ UNCHANGED <<flags, envDry, tr, worker, hist, term>>

\* d = danger_check({"candidate_command": ...}) in a handler, and the
\* handler's return; an exception is caught by _serve_client and reported
DaemonClassify ==
  /\ pc = "d_classify"
  /\ dmn' = [dmn EXCEPT !.out = Append(@,
               IF danger_check(st) = Raised
                 THEN ErrorResponse("exception")
               ELSE IF hist.via = "preexec"
                 THEN preexec_return(dmn.req, dmn.got,
                                     st["candidate_command"], danger_check(st))
                 ELSE postexec_return(dmn.got, st["candidate_command"],
                                      danger_check(st)))]
  /\ hist' = Enter(hist, "danger_check")
  /\ pc' = "d_lines"
  /\ UNCHANGED <<st, flags, envDry, tr, worker, ret, term>>

NextDaemon ==
  \/ DaemonRecv \/ DaemonEOF \/ DaemonLine \/ DaemonTranslated
  \/ DaemonClassify
  \/ TranslateBegin \/ WorkerReturns \/ WorkerRaises \/ TimeoutExpires
  \/ InvokeReturns \/ JoinCompletes

SpecDaemon == InitDaemon /\ [][NextDaemon]_vars

-----------------------------------------------------------------------------
(* terminal.py: the output context of AITerminal.  run reads chunks from   *)
(* the PTY and hands each to append_output_context, which splits it into   *)
(* lines, appends them to last_output_lines, watches for the two failure   *)
(* signals of a tracked command, and trims the list at the end.  An absent *)
(* (None) value is the empty tuple, a present one a tuple of one element.  *)

\* self.max_context_lines
max_context_lines == 100

\* the most chunks run reads from the PTY in one session
MaxChunks == 3

LF == "\n"
CR == "\r"

DigitSeq == <<"0","1","2","3","4","5","6","7","8","9">>

\* the text of the number n, as the shell prints it
RECURSIVE Decimal(_)
Decimal(n) ==
  IF n < 10 THEN <<DigitSeq[n + 1]>> ELSE Decimal(n \div 10) \o <<DigitSeq[(n % 10) + 1]>>

\* the texts of digits, for which int(s) does not raise ValueError
IsDigits(s) == s # <<>> /\ \A k \in 1..Len(s) : s[k] \in Digits

\* int(s) of a text of digits
RECURSIVE ParseInt(_)
ParseInt(s) ==
  IF Len(s) = 1
    THEN (CHOOSE d \in 0..9 : DigitSeq[d + 1] = s[1])
    ELSE 10 * ParseInt(SubSeq(s, 1, Len(s) - 1))
         + (CHOOSE d \in 0..9 : DigitSeq[d + 1] = s[Len(s)])

\* str.endswith
EndsWith(s, k) == Len(k) <= Len(s) /\ SubSeq(s, Len(s) - Len(k) + 1, Len(s)) = k

\* s[a:b] of a list, for a >= 0 and any b (negative b counts from the end)
Slice(s, a, b) ==
  LET hi == IF b < 0 THEN Len(s) + b ELSE IF b > Len(s) THEN Len(s) ELSE b
  IN IF a >= hi THEN <<>> ELSE SubSeq(s, a + 1, hi)

\* "\n".join(lines)
RECURSIVE JoinLines(_)
JoinLines(lines) ==
  IF lines = <<>> THEN <<>>
  ELSE IF Len(lines) = 1 THEN lines[1]
  ELSE LET h == Len(lines) \div 2
       IN JoinLines(SubSeq(lines, 1, h)) \o <<LF>>
          \o JoinLines(SubSeq(lines, h + 1, Len(lines)))

\* the positions where a line break of text ends: "\n", "\r\n", or a lone "\r"
BreakEnds(text) ==
  {i \in 1..Len(text) :
     \/ text[i] = LF
     \/ text[i] = CR /\ ~(i < Len(text) /\ text[i + 1] = LF)}

\* a text holding at most one line break, at its end, without that break
Unbroken(text) ==
  IF text # <<>> /\ text[Len(text)] = LF
    THEN IF Len(text) > 1 /\ text[Len(text) - 1] = CR
           THEN SubSeq(text, 1, Len(text) - 2)
           ELSE SubSeq(text, 1, Len(text) - 1)
  ELSE IF text # <<>> /\ text[Len(text)] = CR
    THEN SubSeq(text, 1, Len(text) - 1)
  ELSE text

\* text.splitlines(): lines end at "\n", "\r" or "\r\n"; no empty last line
RECURSIVE splitlines(_)
splitlines(text) ==
  LET inner == BreakEnds(text) \ {Len(text)}
  IN IF text = <<>>
       THEN <<>>
     ELSE IF inner = {}
       THEN <<Unbroken(text)>>
     ELSE LET late == {i \in inner : 2 * i >= Len(text)}
              m == IF late # {}
                     THEN CHOOSE i \in late : \A j \in late : i <= j
                     ELSE CHOOSE i \in inner : \A j \in inner : i >= j
          IN splitlines(SubSeq(text, 1, m)) \o splitlines(SubSeq(text, m + 1, Len(text)))

StatusPrefix == <<"[","[","A","I",":","S","T","A","T","U","S",":">>
StatusSuffix == <<"]","]">>

\* lines the shell prints besides its numbered output
SpecialLines ==
  { <<"s","h",":"," ","l","s","f",":"," ","C","o","m","m","a","n","d"," ","n","o","t"," ","f","o","u","n","d">>,
    <<"[","[","A","I",":","S","T","A","T","U","S",":","2","]","]">>,
    <<"[","[","A","I",":","S","T","A","T","U","S",":","0","]","]">> }

\* how many numbered lines one chunk may carry
BurstSizes == {2, 99}

\* k numbered lines after the first n, each ended by a newline
RECURSIVE Burst(_, _)
Burst(n, k) ==
  IF k = 0 THEN <<>>
  ELSE IF k = 1 THEN Decimal(n + 1) \o <<LF>>
  ELSE Burst(n, k \div 2) \o Burst(n + (k \div 2), k - (k \div 2))

\* the chunks os.read(self.master_fd, 4096) may return after n numbered lines:
\* data is the text, n the numbered lines it carries
Chunks(n) ==
  {[data |-> Burst(n, k), n |-> k] : k \in BurstSizes}
  \cup {[data |-> l \o <<CR, LF>>, n |-> 0] : l \in SpecialLines}
  \cup {[data |-> <<"s","h",":"," ","l","s","f",":"," ","C","o","m","m","a","n","d"," ","n","o","t"," ","f","o","u","n","d">> \o <<LF>> \o Burst(n, 101), n |-> 101],
        [data |-> Burst(n, 101) \o <<"[","[","A","I",":","S","T","A","T","U","S",":","2","]","]">> \o <<LF>>, n |-> 101],
        [data |-> <<"s","h",":"," ","l","s","f",":"," ","c","o","m","m","a","n","d"," ","n","o","t"," ","f","o","u","n","d">> \o <<CR, LF, CR, LF>> \o <<"[","[","A","I",":","S","T","A","T","U","S",":","1","2","7","]","]">> \o <<CR, LF>>, n |-> 0]}

\* the lines the user types and sends with Enter
TypedCommands == { <<"l","s","f">> }

\* the commands repair_command_if_needed may return
RepairedCommands == { <<"l","s">> }

\* the fields of AITerminal after __init__, auto_repair as /repair left it
NewTerm(auto) ==
  [phase |-> "idle",
   last_output_lines |-> <<>>,
   arrived |-> <<>>,              \* every line ever appended (history)
   todo |-> <<>>,                 \* the lines of the chunk the loop has not reached
   fed |-> 0,                     \* chunks handed to append_output_context (history)
   emitted |-> 0,                 \* numbered lines the shell has printed (history)
   pending_cmd |-> <<>>,          \* _pending_cmd
   pending_output_start |-> 0,    \* _pending_output_start
   pending_from |-> 0,            \* lines appended before the tracked command was sent (history)
   capture |-> [by |-> "none"],   \* how the last window was closed: detector and window (history)
   dispatched |-> <<>>,           \* the command _try_auto_repair sent last (history)
   last_failed_command |-> <<>>,
   last_error_text |-> <<>>,
   repair_attempts |-> <<>>,      \* _repair_attempts
   auto_repair |-> auto]

\* the trimming at the end of append_output_context
keep_oldest(lines) ==
  IF Len(lines) > max_context_lines
    THEN SubSeq(lines, 1, max_context_lines)
    ELSE lines

keep_recent(lines) ==
  IF Len(lines) > max_context_lines
    THEN SubSeq(lines, Len(lines) - max_context_lines + 1, Len(lines))
    ELSE lines

IsStatusLine(line) == StartsWith(line, StatusPrefix) /\ EndsWith(line, StatusSuffix)

\* exit_code of a status line: int(code_str), 0 when it raises
StatusCode(line) ==
  LET code_str == Slice(line, Len(StatusPrefix), 0 - 2)
  IN IF IsDigits(code_str) THEN ParseInt(code_str) ELSE 0

\* del self._repair_attempts[cmd], when cmd is a key
DelAttempts(a, cmd) == [c \in DOMAIN a \ {cmd} |-> a[c]]

\* self._repair_attempts[cmd] = self._repair_attempts.get(cmd, 0) + 1
BumpAttempts(a, cmd) ==
  [c \in DOMAIN a \cup {cmd} |->
     IF c = cmd THEN (IF cmd \in DOMAIN a THEN a[cmd] ELSE 0) + 1 ELSE a[c]]

\* a window closed without giving up the pending command
close_window_keeping(t) ==
  [t EXCEPT !.pending_output_start = Len(t.last_output_lines)]

\* self._pending_cmd = None; self._pending_output_start = len(self.last_output_lines)
close_window(t) ==
  [t EXCEPT !.pending_cmd = <<>>, !.pending_output_start = Len(t.last_output_lines)]

\* one turn of the for loop up to its call of _try_auto_repair: repair tells
\* whether the call is made
append_line(t, line) ==
  LET t1 == [t EXCEPT !.last_output_lines = Append(@, line),
                      !.arrived = Append(@, line)]
      start == IF t1.pending_output_start < 0 THEN 0 ELSE t1.pending_output_start
  IN IF t1.pending_cmd # <<>> /\ Contains(Lower(line), <<"c","o","m","m","a","n","d"," ","n","o","t"," ","f","o","u","n","d">>)
       THEN [t |-> [t1 EXCEPT
                      !.last_failed_command = t1.pending_cmd,
                      !.last_error_text =
                         <<JoinLines(Slice(t1.last_output_lines, start,
                                           Len(t1.last_output_lines)))>>,
                      !.capture = [by |-> "not_found", from |-> t1.pending_from]],
             repair |-> TRUE]
     ELSE IF IsStatusLine(line) /\ t1.pending_cmd # <<>>
       THEN IF StatusCode(line) # 0
              THEN [t |-> [t1 EXCEPT
                             !.last_failed_command = t1.pending_cmd,
                             !.last_error_text =
                                <<JoinLines(Slice(t1.last_output_lines, start, 0 - 1))>>,
                             !.capture = [by |-> "status", from |-> t1.pending_from]],
                    repair |-> TRUE]
              ELSE [t |-> close_window(
                            [t1 EXCEPT !.repair_attempts =
                                          DelAttempts(@, t1.pending_cmd[1]),
                                       !.capture = [by |-> "ok", cmd |-> t1.pending_cmd[1]]]),
                    repair |-> FALSE]
     ELSE [t |-> t1, repair |-> FALSE]

\* the lines on which a turn of the loop may do more than append
Notable(line) == Contains(Lower(line), <<"c","o","m","m","a","n","d"," ","n","o","t"," ","f","o","u","n","d">>) \/ IsStatusLine(line)

\* the turns of the loop for lines that are not notable: each is appended
append_plain(t, lines) ==
  [t EXCEPT !.last_output_lines = @ \o lines, !.arrived = @ \o lines]

\* the for loop from the line it stands at to its next call of _try_auto_repair,
\* or else to the return of append_output_context
RECURSIVE Scan(_, _)
Scan(t, todo) ==
  LET notable == {i \in 1..Len(todo) : Notable(todo[i])}
  IN IF notable = {}
       THEN [append_plain(t, todo) EXCEPT !.phase = "idle", !.todo = <<>>,
                                          !.last_output_lines = keep_recent(@)]
       ELSE LET i == CHOOSE j \in notable : \A k \in notable : j <= k
                r == append_line(append_plain(t, SubSeq(todo, 1, i - 1)), todo[i])
                rest == SubSeq(todo, i + 1, Len(todo))
            IN IF r.repair
                 THEN [r.t EXCEPT !.phase = "repair", !.todo = rest]
                 ELSE Scan(r.t, rest)

\* _should_attempt_repair with the limit its docstring speaks of
should_attempt_repair_capped(t, command) ==
  command # <<>>
  /\ (command \in DOMAIN t.repair_attempts => t.repair_attempts[command] < 2)

\* _should_attempt_repair: false for an empty command only
should_attempt_repair(t, command) == command # <<>>

\* _try_auto_repair: the ways it may end.  raises: os.write on the PTY failed
try_auto_repair(t) ==
  IF ~(t.last_failed_command # <<>> /\ t.last_failed_command[1] # <<>>
       /\ t.last_error_text # <<>> /\ t.last_error_text[1] # <<>>)
    THEN {[t |-> t, raises |-> FALSE]}
  ELSE IF ~t.auto_repair
    THEN {[t |-> t, raises |-> FALSE]}
  ELSE IF ~should_attempt_repair(t, t.last_failed_command[1])
    THEN {[t |-> t, raises |-> FALSE]}
  ELSE LET t1 == [t EXCEPT !.repair_attempts = BumpAttempts(@, t.last_failed_command[1])]
           sent == {[t1 EXCEPT !.pending_cmd = <<c>>,
                               !.pending_output_start = Len(t1.last_output_lines),
                               !.pending_from = Len(t1.arrived),
                               !.dispatched = <<c>>]
                      : c \in RepairedCommands}
       IN \* no fix, cancel, edit or a rejected command: nothing is dispatched
          {[t |-> t1, raises |-> FALSE]}
          \* the repaired or replanned command is dispatched
          \cup {[t |-> t2, raises |-> FALSE] : t2 \in sent}
          \cup {[t |-> t2, raises |-> TRUE] : t2 \in sent \cup {t1}}

InitTerminal ==
  /\ pc = "terminal"
  /\ st = EmptyDict
  /\ flags = EmptyDict
  /\ envDry = FALSE
  /\ tr = IdleTr
  /\ worker = NoWorker
  /\ ret = NoRet
  /\ hist = NewHist("None")
  /\ dmn = NoDmn
  /\ \E auto \in BOOLEAN : term = NewTerm(auto)

\* gate_and_send for a line typed by the user that is not a slash command, with
\* dry-run off: the line becomes the tracked command
TermEnter ==
  /\ term.phase = "idle"
  /\ \E line \in TypedCommands :
       term' = [term EXCEPT !.pending_cmd = <<line>>,
                            !.pending_output_start = Len(term.last_output_lines),
                            !.pending_from = Len(term.arrived),
                            !.dispatched = <<>>]
  /\ UNCHANGED <<pc, st, flags, envDry, tr, worker, ret, hist, dmn>>

\* run: data = os.read(self.master_fd, 4096); self.append_output_context(data)
TermRead ==
  /\ term.phase = "idle"
  /\ term.fed < MaxChunks
  /\ \E chunk \in Chunks(term.emitted) :
       term' = Scan([term EXCEPT !.fed = @ + 1, !.emitted = @ + chunk.n],
                    splitlines(chunk.data))
  /\ UNCHANGED <<pc, st, flags, envDry, tr, worker, ret, hist, dmn>>

\* _try_auto_repair returns and the loop goes on, or it raises and run ends
TermRepair ==
  /\ term.phase = "repair"
  /\ \E o \in try_auto_repair(term) :
       term' = IF o.raises
                 THEN [o.t EXCEPT !.phase = "closed"]
                 ELSE Scan(close_window(o.t), term.todo)
  /\ UNCHANGED <<pc, st, flags, envDry, tr, worker, ret, hist, dmn>>

\* run: os.read returns no data, the child exited
TermEOF ==
  /\ term.phase = "idle"
  /\ term' = [term EXCEPT !.phase = "closed"]
  /\ UNCHANGED <<pc, st, flags, envDry, tr, worker, ret, hist, dmn>>

NextTerminal ==
  \/ TermEnter
  \/ TermRead
  \/ TermRepair
  \/ TermEOF

SpecTerminal == InitTerminal /\ [][NextTerminal]_vars

-----------------------------------------------------------------------------
(* terminal.py: AITerminal.run, the loop between the user's keys, the      *)
(* shell under the PTY and the blocking prompts.  The record of             *)
(* SpecTerminal is extended with the line being typed, the flags, the       *)
(* handler in progress and the shell.  The shell is the environment: it     *)
(* edits a line as bytes arrive, runs a line on newline and prints its      *)
(* output followed by the status line of its prompt hook.                   *)

\* the scripts one user may type
MaxTyped == 2

\* the control bytes of the terminal: 0x03, 0x1a, 0x1c, 0x15, 0x7f
CtrlC == "^C"
CtrlZ == "^Z"
CtrlBackslash == "^\\"
CtrlU == "^U"
DEL == "^?"

\* install_status_prompt: the line that sets the prompt hook
StatusSetup == <<"e","x","p","o","r","t"," ","P","R","O","M","P","T","_","C","O","M","M","A","N","D","=","'","p","r","i","n","t","f"," ","\"","\\","n","[","[","A","I",":","S","T","A","T","U","S",":","%","d","]","]","\\","n","\""," ","$","?",";","'">>

\* str.split(): the words between runs of whitespace
RECURSIVE Words(_)
Words(s) ==
  LET t == LStrip(s)
      ws == {i \in 1..Len(t) : t[i] \in WhiteSpace}
      n == IF ws = {} THEN Len(t) ELSE (CHOOSE i \in ws : \A j \in ws : i <= j) - 1
  IN IF t = <<>> THEN <<>>
     ELSE <<SubSeq(t, 1, n)>> \o Words(SubSeq(t, n + 1, Len(t)))

\* the first position from i on that holds no whitespace
RECURSIVE SkipSpace(_, _)
SkipSpace(s, i) ==
  IF i <= Len(s) /\ s[i] \in WhiteSpace THEN SkipSpace(s, i + 1) ELSE i

CommandKey == <<"\"","c","o","m","m","a","n","d","\"">>

\* re.search(r'"command"\s*:\s*"(.*?)"', s, re.DOTALL): the group of the
\* leftmost match as an option
CommandField(s) ==
  LET at(i) == LET colon == SkipSpace(s, i + Len(CommandKey))
                   quote == SkipSpace(s, colon + 1)
                   ends == {m \in (quote + 1)..Len(s) : s[m] = "\""}
               IN IF /\ SubSeq(s, i, i + Len(CommandKey) - 1) = CommandKey
                     /\ colon <= Len(s) /\ s[colon] = ":"
                     /\ quote <= Len(s) /\ s[quote] = "\""
                     /\ ends # {}
                    THEN <<SubSeq(s, quote + 1,
                                  (CHOOSE m \in ends : \A k \in ends : m <= k) - 1)>>
                    ELSE <<>>
      hits == {i \in 1..(Len(s) - Len(CommandKey) + 1) : at(i) # <<>>}
  IN IF hits = {} THEN <<>>
     ELSE at(CHOOSE i \in hits : \A k \in hits : i <= k)

\* str.replace of the line ends by a blank
Unfold(s) == [i \in 1..Len(s) |-> IF s[i] \in {CR, LF} THEN " " ELSE s[i]]

\* _sanitize_llm_command_text: the command as an option (None is empty)
_sanitize_llm_command_text(text) ==
  LET candidate == Strip(text)
      m == CommandField(candidate)
      extracted == IF m = <<>> THEN <<>> ELSE Strip(Unfold(Strip(m[1])))
  IN IF Contains(candidate, CommandKey) \/ StartsWith(candidate, <<"{">>)
       THEN IF extracted # <<>> THEN <<extracted>> ELSE <<>>
     ELSE IF \E i \in 1..Len(candidate) : candidate[i] \in {CR, LF}
       THEN <<>>
     ELSE IF candidate # <<>> THEN <<candidate>> ELSE <<>>

\* what llm_from_english returns to english_to_command_if_needed in a
\* session whose translations all come back as plain commands or empty
PlainOutcomes ==
  { [candidate_command |-> <<"l","s">>, candidate_explanation |-> <<>>, candidate_mode |-> T_run],
    [candidate_command |-> <<"r","e","b","o","o","t">>, candidate_explanation |-> <<>>, candidate_mode |-> T_run],
    [candidate_command |-> <<>>, candidate_explanation |-> <<>>, candidate_mode |-> T_run] }

\* what llm_from_english returns to english_to_command_if_needed: a
\* candidate, or an exception
EnglishOutcomes ==
  { [candidate_command |-> <<"l","s">>, candidate_explanation |-> <<>>, candidate_mode |-> T_run],
    [candidate_command |-> <<"r","e","b","o","o","t">>, candidate_explanation |-> <<>>, candidate_mode |-> T_run],
    [candidate_command |-> <<"{","\"","c","o","m","m","a","n","d","\"",":"," ","\"","l","s","\"","}">>, candidate_explanation |-> <<>>, candidate_mode |-> T_run],
    [candidate_command |-> <<"l","s"," ","#","'">>, candidate_explanation |-> <<>>, candidate_mode |-> T_run],
    [candidate_command |-> <<>>, candidate_explanation |-> <<>>, candidate_mode |-> T_run],
    [candidate_command |-> <<"l","s">>, candidate_explanation |-> <<"l","i","s","t","s">>, candidate_mode |-> T_explain],
    [candidate_command |-> <<"{","l","s","}">>, candidate_explanation |-> <<>>, candidate_mode |-> T_run],
    Raised }

\* the branch english_to_command_if_needed takes for a result (history)
EnglishBranch(result) ==
  IF result = Raised THEN "error"
  ELSE IF result.candidate_command # <<>> /\ Lower(result.candidate_mode) # T_explain
    THEN IF _sanitize_llm_command_text(result.candidate_command) = <<>>
           THEN "rejected" ELSE "command"
  ELSE IF result.candidate_command # <<>> THEN "explain"
  ELSE "empty"

\* an english_to_command_if_needed that falls back on the text it was given
english_to_command_or_text(user_line, result) ==
  IF EnglishBranch(result) = "command"
    THEN _sanitize_llm_command_text(result.candidate_command)[1]
    ELSE user_line

\* english_to_command_if_needed, given what llm_from_english did
english_to_command_if_needed(user_line, result) ==
  IF EnglishBranch(result) = "command"
    THEN _sanitize_llm_command_text(result.candidate_command)[1]
    ELSE <<>>

\* what repair_command_if_needed returns (None is the empty option)
RepairResults == { <<>>, <<<<"l","s">>>>, <<<<"r","e","b","o","o","t">>>> }

\* what llm_replan returns as candidate_command
ReplanResults == { <<>>, <<"l","s">>, <<"r","e","b","o","o","t">> }

\* the exit statuses the shell may give a line
ExitCodes(line) ==
  IF line \in {<<"l","s">>, <<"r","e","b","o","o","t">>, <<"l","s"," ","#","'">>} THEN {0, 2} ELSE {127}

\* what the shell prints for a line that ends with status code
ShellOutput(line, code) ==
  (IF code = 127 THEN <<"s","h",":"," ">> \o line \o <<":"," ","c","o","m","m","a","n","d"," ","n","o","t"," ","f","o","u","n","d">> \o <<CR, LF>>
   ELSE IF code # 0 THEN <<"f","a","i","l","e","d">> \o <<CR, LF>>
   ELSE <<>>)
  \o <<CR, LF>> \o StatusPrefix \o Decimal(code) \o StatusSuffix \o <<CR, LF>>

\* what the handler in progress has done so far: translation calls, the hint,
\* prompts, the last command given to approval_gate, the last answer read at
\* a prompt, the signal forwarded
NoFx == [calls |-> 0, hint |-> FALSE, asked |-> FALSE, gate |-> <<>>,
         answer |-> [keys |-> <<>>, end |-> "none"],
         sig |-> <<>>]

NoCtx == [from |-> "none"]

\* the fields of AITerminal when run enters its loop, and the shell
NewMux(dry, auto) ==
  [NewTerm(auto) EXCEPT !.last_output_lines = <<<<>>, StatusPrefix \o <<"0">> \o StatusSuffix>>,
                        !.arrived = <<<<>>, StatusPrefix \o <<"0">> \o StatusSuffix>>]
  @@ [line_buffer |-> <<>>,
      typing_special_command |-> FALSE,  \* _typing_special_command
      dry_run |-> dry,
      outcomes |-> PlainOutcomes,    \* what llm_from_english may return in this session
      interactive_repair |-> TRUE,
      ctx |-> NoCtx,                 \* the handler that waits at a prompt or at the gate
      keys |-> <<>>,                 \* the keys typed and not yet read
      typed |-> 0,                   \* scripts typed (history)
      stdin |-> "open",
      sh |-> [alive |-> TRUE, rl |-> <<>>, todo |-> <<>>, status |-> 0, out |-> <<>>],
      got |-> [none |-> TRUE],       \* the origin of the chunk read last (history)
      fx |-> NoFx]                   \* what the handler in progress has done (history)

\* the shell takes one byte from the PTY: it edits its line, or queues the
\* line for execution on newline; how tells who wrote the newline
ShellByte(t, c, how) ==
  LET sh == t.sh
  IN IF ~sh.alive THEN t
     ELSE IF c = LF
       THEN [t EXCEPT !.sh.todo = Append(@, [line |-> sh.rl, how |-> how,
                                                 tracked |-> t.pending_cmd = <<sh.rl>>]),
                      !.sh.rl = <<>>]
     ELSE IF c \in {CtrlU, CtrlC} THEN [t EXCEPT !.sh.rl = <<>>]
     ELSE IF c \in {CtrlZ, CtrlBackslash} THEN t
     ELSE IF c = DEL
       THEN [t EXCEPT !.sh.rl = IF @ = <<>> THEN @ ELSE SubSeq(@, 1, Len(@) - 1)]
     ELSE [t EXCEPT !.sh.rl = Append(@, c)]

\* os.write(self.master_fd, data): one byte, or a text of plain characters
\* with or without a newline at its end
pty_write(t, data, how) ==
  IF data = <<>> THEN t
  ELSE IF Len(data) = 1 THEN ShellByte(t, data[1], how)
  ELSE IF ~t.sh.alive THEN t
  ELSE IF data[Len(data)] = LF
    THEN ShellByte([t EXCEPT !.sh.rl = @ \o SubSeq(data, 1, Len(data) - 1)], LF, how)
  ELSE [t EXCEPT !.sh.rl = @ \o data]

\* install_status_prompt
install_status_prompt(t) == pty_write(t, StatusSetup \o <<LF>>, "hook")

\* _send_command_immediately
send_command_immediately(t, command, how) ==
  pty_write(pty_write(t, <<CtrlU>>, how), command \o <<LF>>, how)

\* the finally clause of run
teardown(t) == [t EXCEPT !.phase = "closed"]

\* the handler in progress: who called (gate_and_send or _try_auto_repair),
\* which translation produced cmd, the command a replan starts from, the
\* line the user typed, and the branch english_to_command_if_needed took
Ctx(from, kind, cmd, base, original) ==
  [from |-> from, kind |-> kind, cmd |-> cmd, base |-> base, original |-> original,
   branch |-> "none"]

\* the handler returns: append_output_context closes the window and goes on
\* with the lines left after its call of _try_auto_repair, gate_and_send
\* returns to run
mux_return(t) ==
  IF t.ctx.from = "repair"
    THEN Scan(close_window([t EXCEPT !.ctx = NoCtx]), t.todo)
    ELSE [t EXCEPT !.phase = "idle", !.ctx = NoCtx]

\* gate_and_send from the dry-run test on: line is what will run, original
\* what the user typed
send_line(t, line, original) ==
  IF t.dry_run
    THEN pty_write(t, <<LF>>, "blank")
    ELSE LET t1 == [t EXCEPT !.pending_cmd = <<line>>,
                             !.pending_output_start = Len(t.last_output_lines),
                             !.pending_from = Len(t.arrived),
                             !.dispatched = <<>>]
         IN IF line = original
              THEN pty_write(t1, <<LF>>, "typed")
              ELSE pty_write(install_status_prompt(t1), line \o <<LF>>, "english")

\* gate_and_send after english_to_command_if_needed returned transformed
english_done(t, original, transformed, branch) ==
  IF transformed = <<>>
    THEN [t EXCEPT !.phase = "ask_nofix", !.fx.asked = TRUE,
                   !.ctx = [Ctx("gate", "english", <<>>, <<>>, original)
                              EXCEPT !.branch = branch]]
  ELSE IF transformed # original
    THEN [t EXCEPT !.phase = "gate",
                   !.ctx = [Ctx("gate", "english", transformed, <<>>, original)
                              EXCEPT !.branch = branch]]
  ELSE send_line(t, transformed, original)

\* gate_and_send up to its return, its prompt or its call of approval_gate
gate_and_send(t, user_line) ==
  LET line == user_line
      stripped == LStrip(line)
  IN IF Strip(line) = <<>>
       THEN {pty_write(t, <<LF>>, "blank")}
     ELSE IF StartsWith(stripped, <<"/">>)
       THEN LET t1 == pty_write(t, <<CtrlU>>, "clear")
                tokens == Words(stripped)
                cmd == tokens[1]
                args == Tail(tokens)
            IN IF cmd \in {<<"/","q">>, <<"/","q","u","i","t">>, <<"/","e","x","i","t">>}
                 THEN {pty_write(t1, <<"e","x","i","t">> \o <<LF>>, "quit")}
               ELSE IF cmd = <<"/","h","e","l","p">>
                 THEN {pty_write(t1, <<LF>>, "blank")}
               ELSE IF cmd = <<"/","r","e","p","a","i","r">>
                 THEN LET sub == IF args # <<>> THEN Lower(args[1]) ELSE <<"o","n">>
                          t2 == IF sub \in {<<"o","n">>, <<"i","n","t","e","r","a","c","t","i","v","e">>}
                                  THEN [t1 EXCEPT !.auto_repair = TRUE,
                                                  !.interactive_repair = TRUE]
                                ELSE IF sub = <<"a","u","t","o">>
                                  THEN [t1 EXCEPT !.auto_repair = TRUE,
                                                  !.interactive_repair = FALSE]
                                ELSE IF sub = <<"o","f","f">>
                                  THEN [t1 EXCEPT !.auto_repair = FALSE]
                                ELSE t1
                      IN {pty_write(t2, <<LF>>, "blank")}
               ELSE IF StartsWith(cmd, <<"/","e">>)
                 THEN LET remainder == Strip(SubSeq(stripped, 3, Len(stripped)))
                      IN IF remainder # <<>>
                           THEN {english_done([t1 EXCEPT !.fx.calls = @ + 1], line,
                                              Strip(english_to_command_if_needed(remainder, r)),
                                              EnglishBranch(r))
                                   : r \in t.outcomes}
                           ELSE {pty_write(t1, <<LF>>, "blank")}
               ELSE {pty_write(t1, line \o <<LF>>, "unknown")}
     ELSE {send_line(t, line, line)}

\* forward_signal: sent tells whether a signal was delivered (tcgetpgrp and
\* killpg, or else killpg or kill on the child, succeeded)
forward_signal(t, sig, ctrl) ==
  {[pty_write(t, <<ctrl>>, "signal") EXCEPT !.fx.sig = <<[sig |-> sig, sent |-> sent, wrote |-> TRUE]>>]
     : sent \in BOOLEAN}

\* one turn of the loop of run for the byte ch read from the user
on_key(t, ch) ==
  IF ch = CtrlC
    THEN {[t2 EXCEPT !.line_buffer = <<>>, !.typing_special_command = FALSE]
            : t2 \in forward_signal(t, "SIGINT", CtrlC)}
  ELSE IF ch = CtrlZ THEN forward_signal(t, "SIGTSTP", CtrlZ)
  ELSE IF ch = CtrlBackslash THEN forward_signal(t, "SIGQUIT", CtrlBackslash)
  ELSE IF ch = DEL
    THEN LET t1 == IF t.line_buffer # <<>>
                     THEN [t EXCEPT !.line_buffer = SubSeq(@, 1, Len(@) - 1),
                                    !.typing_special_command =
                                       IF Len(t.line_buffer) = 1 THEN FALSE ELSE @]
                     ELSE t
         IN {IF ~t1.typing_special_command THEN pty_write(t1, <<ch>>, "key") ELSE t1}
  ELSE IF ch \in {CR, LF}
    THEN gate_and_send([t EXCEPT !.line_buffer = <<>>, !.typing_special_command = FALSE],
                       t.line_buffer)
  ELSE LET t1 == [t EXCEPT !.line_buffer = Append(@, ch),
                           !.typing_special_command =
                              IF t.line_buffer = <<>> /\ ch = "/" THEN TRUE ELSE @]
       IN {IF t1.typing_special_command THEN t1 ELSE pty_write(t1, <<ch>>, "key")}

\* approval_gate returned ok for the command of the handler in progress
gate_result(t, ok) ==
  LET cmd == t.ctx.cmd
  IN IF t.ctx.kind = "english"
       THEN mux_return(IF ok THEN send_line(t, cmd, t.ctx.original)
                             ELSE pty_write(t, <<LF>>, "blank"))
     ELSE IF ok
       THEN mux_return(send_command_immediately(
                         [t EXCEPT !.pending_cmd = <<cmd>>,
                                   !.pending_output_start = Len(t.last_output_lines),
                                   !.pending_from = Len(t.arrived),
                                   !.dispatched = <<cmd>>],
                         cmd, t.ctx.kind))
     ELSE mux_return(t)

\* approval_gate up to its return or its prompt
terminal_approval_gate(t) ==
  LET verdict == check_danger(t.ctx.cmd)
  IN IF verdict = Raised
       THEN gate_result([t EXCEPT !.fx.gate = <<[cmd |-> t.ctx.cmd, verdict |-> "raised"]>>],
                        TRUE)
     ELSE IF verdict.danger
       THEN [t EXCEPT !.phase = "ask_approve",
                      !.fx.asked = TRUE,
                      !.fx.gate = <<[cmd |-> t.ctx.cmd, verdict |-> "danger"]>>]
     ELSE gate_result([t EXCEPT !.fx.gate = <<[cmd |-> t.ctx.cmd, verdict |-> "safe"]>>],
                      TRUE)

\* a hint whatever the failure was
hint_always(t) == TRUE

\* _try_auto_repair with auto-repair off: the hint is printed for a command
\* worth repairing whose error text holds "command not found"
hint_due(t) ==
  /\ should_attempt_repair(t, t.last_failed_command[1])
  /\ Contains(Lower(t.last_error_text[1]), <<"c","o","m","m","a","n","d"," ","n","o","t"," ","f","o","u","n","d">>)

\* _try_auto_repair up to its return, its prompt or its call of approval_gate
try_auto_repair_begin(t0) ==
  LET t == [t0 EXCEPT !.ctx = Ctx("repair", "repaired", <<>>, <<>>, <<>>)]
  IN IF ~(t.last_failed_command # <<>> /\ t.last_failed_command[1] # <<>>
          /\ t.last_error_text # <<>> /\ t.last_error_text[1] # <<>>)
       THEN {mux_return(t)}
     ELSE IF ~t.auto_repair
       THEN {mux_return([t EXCEPT !.fx.hint = hint_due(t)])}
     ELSE IF ~should_attempt_repair(t, t.last_failed_command[1])
       THEN {mux_return(t)}
     ELSE LET failed == t.last_failed_command[1]
              t1 == [t EXCEPT !.repair_attempts = BumpAttempts(@, failed),
                              !.fx.calls = @ + 1]
          IN {IF r = <<>> \/ Strip(r[1]) = <<>>
                THEN [t1 EXCEPT !.phase = "ask_nofix", !.fx.asked = TRUE,
                                !.ctx = Ctx("repair", "repaired", <<>>, failed, <<>>)]
              ELSE IF t1.interactive_repair
                THEN [t1 EXCEPT !.phase = "ask_fix", !.fx.asked = TRUE,
                                !.ctx = Ctx("repair", "repaired", r[1], failed, <<>>)]
              ELSE [t1 EXCEPT !.phase = "gate",
                              !.ctx = Ctx("repair", "repaired", r[1], failed, <<>>)]
                : r \in RepairResults}

\* what the user does at a blocking prompt: keys and Enter, or Ctrl-C
Typed(keys) == [keys |-> keys, end |-> "enter"]
Interrupt == [keys |-> <<>>, end |-> "interrupt"]

PromptAnswers(phase) ==
  IF phase = "ask_fix" THEN {Typed(<<"r">>), Typed(<<"c">>), Typed(<<"e">>), Typed(<<"p">>), Interrupt}
  ELSE IF phase = "ask_nofix" THEN {Typed(<<"p">>), Typed(<<"e">>), Typed(<<"c">>), Interrupt}
  ELSE IF phase = "ask_feedback" THEN {Typed(<<"s","a","f","e","r">>), Typed(<<>>), Interrupt}
  ELSE {Typed(<<"Y">>), Typed(<<"n">>), Interrupt}

\* _read_line_raw: the stripped line, or "" on Ctrl-C
read_line_raw(a) == IF a.end = "interrupt" THEN <<>> ELSE Strip(a.keys)

\* the no-suggestion prompt of gate_and_send and of _try_auto_repair
answer_nofix(t, a) ==
  LET choice == Lower(read_line_raw(a))
  IN IF StartsWith(choice, <<"p">>)
       THEN {[t EXCEPT !.phase = "ask_feedback"]}
     ELSE IF StartsWith(choice, <<"e">>)
       THEN {mux_return(IF t.ctx.from = "repair"
                          THEN pty_write(pty_write(t, <<CtrlU>>, "edit"), t.ctx.base, "edit")
                          ELSE pty_write(t, <<CtrlU>>, "edit"))}
     ELSE {mux_return(IF t.ctx.from = "gate" THEN pty_write(t, <<LF>>, "blank") ELSE t)}

\* _prompt_fix_choice and what _try_auto_repair does with the choice
answer_fix(t, a) ==
  LET ans == Lower(read_line_raw(a))
  IN IF StartsWith(ans, <<"r">>)
       THEN {[t EXCEPT !.phase = "gate"]}
     ELSE IF StartsWith(ans, <<"e">>)
       THEN {mux_return(pty_write(pty_write(t, <<CtrlU>>, "edit"), t.ctx.cmd, "edit"))}
     ELSE IF StartsWith(ans, <<"p">>)
       THEN {[t EXCEPT !.phase = "ask_feedback"]}
     ELSE {mux_return(t)}

\* _handle_replan up to its return or its call of approval_gate
handle_replan(t, base_command, feedback) ==
  LET t1 == [t EXCEPT !.fx.calls = @ + 1]
  IN {IF Strip(c) = <<>>
        THEN mux_return(t1)
        ELSE [t1 EXCEPT !.phase = "gate", !.ctx.kind = "replan", !.ctx.cmd = Strip(c)]
        : c \in ReplanResults}

\* _prompt_replan_feedback and the call of _handle_replan that follows it
answer_feedback(t, a) == handle_replan(t, t.ctx.base, read_line_raw(a))

\* a prompt that takes any line ended by Enter for a yes
approved_by_enter(a) == a.end = "enter"

\* the y/N prompt of approval_gate: y or yes in any case approves
approved_by(a) == a.end = "enter" /\ Lower(a.keys) \in {<<"y">>, <<"y","e","s">>}

answer_approve(t, a) == {gate_result(t, approved_by(a))}

Prompts == {"ask_fix", "ask_nofix", "ask_feedback", "ask_approve"}

\* what one user types between two looks at the screen
Scripts ==
  { <<"l","s">> \o <<CR>>, <<"l","s","f">> \o <<CR>>, <<"/","e"," ","x">> \o <<CR>>, <<"/","d","r","y"," ","o","n">> \o <<CR>>,
    <<"/","r","e","p","a","i","r">> \o <<CR>>, <<"/","r","e","p","a","i","r"," ","a","u","t","o">> \o <<CR>>, <<"/","h","e","l","p">> \o <<CR>>, <<"/","q">> \o <<CR>>,
    <<"/">> \o <<DEL>> \o <<"l","s">> \o <<CR>>, <<CR>>,
    <<CtrlC>>, <<CtrlZ>>, <<CtrlBackslash>> }

MuxFrame == UNCHANGED <<pc, st, flags, envDry, tr, worker, ret, hist, dmn>>

InitMux ==
  /\ pc = "mux"
  /\ st = EmptyDict
  /\ flags = EmptyDict
  /\ envDry = FALSE
  /\ tr = IdleTr
  /\ worker = NoWorker
  /\ ret = NoRet
  /\ hist = NewHist("None")
  /\ dmn = NoDmn
  /\ \E dry \in BOOLEAN, auto \in BOOLEAN : term = NewMux(dry, auto)

\* the user types a script, once the shell has run what it was sent and the
\* screen shows all of its output
UserTypes ==
  /\ term.phase = "idle" /\ term.stdin = "open" /\ term.keys = <<>>
  /\ term.sh.todo = <<>> /\ term.sh.out = <<>>
  /\ term.typed < MaxTyped
  /\ \E script \in Scripts : term' = [term EXCEPT !.keys = script, !.typed = @ + 1]
  /\ MuxFrame

\* the user's side of the terminal is closed
UserCloses ==
  /\ term.phase # "closed" /\ term.stdin = "open" /\ term.keys = <<>>
  /\ term' = [term EXCEPT !.stdin = "eof"]
  /\ MuxFrame

\* the shell runs the next line it was sent and prints the status line
ShellRun ==
  /\ term.sh.alive /\ term.sh.todo # <<>>
  /\ LET job == Head(term.sh.todo)
         line == Strip(job.line)
         done(code) == [term EXCEPT !.sh.todo = Tail(@),
                                    !.sh.status = code,
                                    !.sh.out = Append(@, [data |-> ShellOutput(line, code),
                                                          of |-> job.line, code |-> code,
                                                          how |-> job.how,
                                                          tracked |-> job.tracked])]
     IN IF line = <<"e","x","i","t">>
          THEN term' = [term EXCEPT !.sh.alive = FALSE, !.sh.todo = <<>>, !.sh.rl = <<>>]
        ELSE IF line = <<>>
          THEN term' = done(term.sh.status)
        ELSE IF line = StatusSetup
          THEN term' = done(0)
        ELSE \E code \in ExitCodes(line) : term' = done(code)
  /\ MuxFrame

\* run: data = os.read(self.master_fd, 4096); self.append_output_context(data)
MuxRead ==
  /\ term.phase = "idle" /\ term.sh.out # <<>>
  /\ LET chunk == Head(term.sh.out)
     IN term' = Scan([term EXCEPT !.sh.out = Tail(@), !.fed = @ + 1, !.fx = NoFx,
                                  !.got = [of |-> chunk.of, code |-> chunk.code,
                                           how |-> chunk.how, tracked |-> chunk.tracked]],
                     splitlines(chunk.data))
  /\ MuxFrame

\* run: os.read on the PTY returns no data or raises OSError, the child exited
MuxPtyEOF ==
  /\ term.phase = "idle" /\ ~term.sh.alive /\ term.sh.out = <<>>
  /\ term' = teardown(term)
  /\ MuxFrame

\* run: ch = os.read(sys.stdin.fileno(), 1) returns b"", stdin closed
MuxStdinEOF ==
  /\ term.phase = "idle" /\ term.stdin = "eof"
  /\ term' = teardown(term)
  /\ MuxFrame

\* run: ch = os.read(sys.stdin.fileno(), 1) and the branch for ch
MuxKey ==
  /\ term.phase = "idle" /\ term.keys # <<>>
  /\ \E t2 \in on_key([term EXCEPT !.keys = Tail(@), !.fx = NoFx], Head(term.keys)) :
       term' = t2
  /\ MuxFrame

\* append_output_context calls _try_auto_repair
MuxRepair ==
  /\ term.phase = "repair"
  /\ \E t2 \in try_auto_repair_begin(term) : term' = t2
  /\ MuxFrame

\* approval_gate classifies the command of the handler in progress
MuxGate ==
  /\ term.phase = "gate"
  /\ term' = terminal_approval_gate(term)
  /\ MuxFrame

\* the user answers the blocking prompt
MuxAnswer ==
  /\ term.phase \in Prompts /\ term.stdin = "open"
  /\ \E a \in PromptAnswers(term.phase) :
       LET t == [term EXCEPT !.fx.answer = a]
       IN \E t2 \in (IF term.phase = "ask_fix" THEN answer_fix(t, a)
                     ELSE IF term.phase = "ask_nofix" THEN answer_nofix(t, a)
                     ELSE IF term.phase = "ask_feedback" THEN answer_feedback(t, a)
                     ELSE answer_approve(t, a)) :
            term' = t2
  /\ MuxFrame

\* a blocking prompt reads b"" from the closed stdin: neither newline nor
\* Ctrl-C, so its loop reads again
MuxSpin ==
  /\ term.phase \in Prompts /\ term.stdin = "eof"
  /\ term' = [term EXCEPT !.fx.answer = [keys |-> <<>>, end |-> "eof"]]
  /\ MuxFrame

NextMux ==
  \/ UserTypes
  \/ UserCloses
  \/ ShellRun
  \/ MuxRead
  \/ MuxPtyEOF
  \/ MuxStdinEOF
  \/ MuxKey
  \/ MuxRepair
  \/ MuxGate
  \/ MuxAnswer
  \/ MuxSpin

SpecMux == InitMux /\ [][NextMux]_vars

\* the slash-prefixed lines one user may type
EnglishScripts ==
  { <<"/","e"," ","x">> \o <<CR>>, <<" ","/","e"," ","x">> \o <<CR>>, <<"/","e">> \o <<CR>>, <<"/","e","t","c","/","x">> \o <<CR>>,
    <<"/","u","s","r","/","x">> \o <<CR>> }

\* a session in which the translation may return anything it can
InitEnglish ==
  /\ pc = "mux"
  /\ st = EmptyDict
  /\ flags = EmptyDict
  /\ envDry = FALSE
  /\ tr = IdleTr
  /\ worker = NoWorker
  /\ ret = NoRet
  /\ hist = NewHist("None")
  /\ dmn = NoDmn
  /\ \E dry \in BOOLEAN, auto \in BOOLEAN :
       term = [NewMux(dry, auto) EXCEPT !.outcomes = EnglishOutcomes]

\* the user types a slash-prefixed line, once the shell has run what it was
\* sent and the screen shows all of its output
UserTypesEnglish ==
  /\ term.phase = "idle" /\ term.stdin = "open" /\ term.keys = <<>>
  /\ term.sh.todo = <<>> /\ term.sh.out = <<>>
  /\ term.typed < MaxTyped
  /\ \E script \in EnglishScripts : term' = [term EXCEPT !.keys = script, !.typed = @ + 1]
  /\ MuxFrame

NextEnglish ==
  \/ UserTypesEnglish
  \/ ShellRun
  \/ MuxRead
  \/ MuxKey
  \/ MuxRepair
  \/ MuxGate
  \/ MuxAnswer

SpecEnglish == InitEnglish /\ [][NextEnglish]_vars

\* the same loop where run takes an EOF that is there, approval_gate
\* classifies, and the user answers every prompt while stdin is open
SpecMuxLive ==
  /\ SpecMux
  /\ WF_vars(MuxPtyEOF) /\ WF_vars(MuxStdinEOF) /\ WF_vars(MuxGate) /\ WF_vars(MuxAnswer)


-----------------------------------------------------------------------------
(* daemon.py and nodes.py: the connection workers and the module-level     *)
(* translation client.  serve starts one thread per accepted connection;   *)
(* every request that translates calls _ensure_llm first, which tests the  *)
(* global _LLM, calls get_llm when it is None, stores the result and       *)
(* returns the global.  Nothing orders the steps of two threads.           *)

\* the connections accepted while the daemon runs
NumThreads == 2

\* the translating requests of one connection
MaxRequests == 2

Threads == 1..NumThreads

\* a connection that serve has not accepted yet
NoThread == [at |-> "none", new |-> <<>>, llm |-> <<>>, done |-> 0]

InitPool ==
  /\ pc = "serve"
  /\ st = EmptyDict
  /\ flags = EmptyDict
  /\ envDry = FALSE
  /\ tr = IdleTr
  /\ worker = NoWorker
  /\ ret = NoRet
  /\ hist = NewHist("None")
  /\ dmn = [phase |-> "pool",
            _LLM |-> <<>>,        \* the global of nodes.py, None at import
            constructed |-> 0,    \* the calls of get_llm that returned
            used |-> {},          \* the clients translations were made with
            threads |-> [i \in Threads |-> NoThread]]
  /\ term = NoTerm

PoolRest == <<pc, st, flags, envDry, tr, worker, ret, hist, term>>

\* conn, addr = srv.accept(); threading.Thread(target=_serve_client).start()
PoolAccept(i) ==
  /\ dmn.threads[i].at = "none"
  /\ dmn' = [dmn EXCEPT !.threads[i].at = "recv"]
  /\ UNCHANGED PoolRest

\* the thread read a request that translates: the handler calls
\* from_english or from_error, whose first statement is llm = _ensure_llm()
PoolRequest(i) ==
  /\ dmn.threads[i].at = "recv"
  /\ dmn.threads[i].done < MaxRequests
  /\ dmn' = [dmn EXCEPT !.threads[i].at = "ensure"]
  /\ UNCHANGED PoolRest

\* conn.recv returned b"": the thread ends
PoolClose(i) ==
  /\ dmn.threads[i].at = "recv"
  /\ dmn' = [dmn EXCEPT !.threads[i].at = "closed"]
  /\ UNCHANGED PoolRest

\* if _LLM is None:
EnsureTest(i) ==
  /\ dmn.threads[i].at = "ensure"
  /\ dmn' = [dmn EXCEPT !.threads[i].at =
                          IF dmn._LLM = <<>> THEN "construct" ELSE "return"]
  /\ UNCHANGED PoolRest

\* get_llm() returns a client it constructed, the n-th of the process
get_llm(n) == <<n>>

\* the call get_llm() on the right of the assignment
EnsureConstruct(i) ==
  /\ dmn.threads[i].at = "construct"
  /\ dmn' = [dmn EXCEPT !.constructed = @ + 1,
                        !.threads[i].new = get_llm(dmn.constructed + 1),
                        !.threads[i].at = "store"]
  /\ UNCHANGED PoolRest

\* _LLM = <the value get_llm returned>
EnsureStore(i) ==
  /\ dmn.threads[i].at = "store"
  /\ dmn' = [dmn EXCEPT !._LLM = dmn.threads[i].new,
                        !.threads[i].at = "return"]
  /\ UNCHANGED PoolRest

\* return _LLM: the global as it is now
EnsureReturn(i) ==
  /\ dmn.threads[i].at = "return"
  /\ dmn' = [dmn EXCEPT !.threads[i].llm = dmn._LLM,
                        !.threads[i].at = "translate"]
  /\ UNCHANGED PoolRest

\* the translation was made with llm and the response sent
PoolRespond(i) ==
  /\ dmn.threads[i].at = "translate"
  /\ dmn' = [dmn EXCEPT !.used = @ \cup {dmn.threads[i].llm},
                        !.threads[i].done = @ + 1,
                        !.threads[i].at = "recv"]
  /\ UNCHANGED PoolRest

NextPool ==
  \E i \in Threads :
    \/ PoolAccept(i) \/ PoolRequest(i) \/ PoolClose(i)
    \/ EnsureTest(i) \/ EnsureConstruct(i) \/ EnsureStore(i)
    \/ EnsureReturn(i) \/ PoolRespond(i)

SpecPool == InitPool /\ [][NextPool]_vars

-----------------------------------------------------------------------------
(* Properties.                                                             *)

\* the request runs in the graph (not a node called as a plain function)
InGraph == hist.via \notin {"None", "call"}

\* the current candidate was produced by a translation node
Translated == InGraph /\ hist.origin \in TranslationNodes

\* the human answered y or yes at the approval prompt
AnsweredYes ==
  hist.asked /\ Lower(Strip(hist.answer)) \in { <<"y">>, <<"y","e","s">> }

HasPlaceholder(c) == Contains(c, <<"<">>) /\ Contains(c, <<">">>)

\* C1: a translated candidate whose danger verdict is dangerous reaches
\* run_command only after approval_gate blocked on the human prompt and the
\* answer was y or yes (approval = "approved"); it is never auto-approved.
C1_DangerousNeedsHumanYes ==
  (pc = "run" /\ Translated /\ TruthyFlag(st, "danger"))
    => (AnsweredYes /\ st["approval"] = "approved")

\* a dangerous fix of a failed direct command is about to run, after a yes
C1_Witness ==
  /\ pc = "run"
  /\ hist.routed = "from_direct"
  /\ hist.origin = "from_error"
  /\ TruthyFlag(st, "danger")
  /\ st["candidate_command"] = <<"r","e","b","o","o","t">>
  /\ AnsweredYes

\* C2: a direct-command request goes route -> from_direct -> run: until
\* the command is run the transport is not invoked, danger_check and
\* approval_gate are not entered and no human prompt is issued.
C2_DirectBypass ==
  (/\ InGraph
   /\ hist.routed = "from_direct"
   /\ hist.origin \in {"None", "from_direct"}
   /\ ~hist.ran)
    => /\ pc \in {"from_direct", "run"}
       /\ pc = "run" => hist.origin = "from_direct"
       /\ hist.calls = 0
       /\ hist.prompts = 0
       /\ hist.visited \subseteq {"from_direct"}

\* a direct command the classifier flags is about to run, unchecked
C2_Witness ==
  /\ pc = "run"
  /\ hist.routed = "from_direct"
  /\ hist.origin = "from_direct"
  /\ ~hist.ran
  /\ st["candidate_command"] = <<"r","e","b","o","o","t">>
  /\ check_danger(st["candidate_command"]).danger
  /\ ~Has(st, "danger")
  /\ hist.calls = 0

\* how many of the three input kinds a state populates
PopulatedKinds(d) ==
  (IF TruthyText(d, "user_request") THEN 1 ELSE 0)
  + (IF TruthyText(d, "last_command") /\ TruthyText(d, "last_error")
       THEN 1 ELSE 0)
  + (IF TruthyText(d, "direct_command") THEN 1 ELSE 0)

\* route has just decided and no node has run yet
JustRouted == InGraph /\ hist.routed # "None" /\ hist.visited = {}

\* C3: route accepts a request if and only if exactly one input kind is
\* populated; a request populating none or more than one is rejected before
\* any translation, classification or execution step runs.
C3_RouteExactlyOneKind ==
  JustRouted
    => /\ (hist.routed # "ValueError") <=> (PopulatedKinds(st) = 1)
       /\ hist.routed = "ValueError" => pc = "raised"

\* C4: a translated candidate whose command text contains both < and > is
\* cancelled and turned to explain mode at approval_gate, and run_command
\* is never invoked for it.
C4_PlaceholderNeverRuns ==
  (Translated /\ HasPlaceholder(GetText(st, "candidate_command")))
    => /\ pc # "run"
       /\ ~hist.ran
       /\ hist.gated => /\ st["approval"] = "cancelled"
                        /\ st["candidate_mode"] = T_explain
                        /\ pc = "END"

\* a fix with a placeholder, proposed after a direct command failed, was
\* cancelled at the gate
C4_Witness ==
  /\ pc = "END"
  /\ hist.routed = "from_direct"
  /\ hist.origin = "from_error"
  /\ HasPlaceholder(GetText(st, "candidate_command"))
  /\ hist.gated
  /\ st["approval"] = "cancelled"
  /\ st["candidate_mode"] = T_explain

\* C5: a candidate whose mode is explain is never executed: approval_gate
\* returns cancelled for it and the workflow ends without run_command,
\* whatever its command text and danger verdict.
C5_ExplainNeverRuns ==
  (/\ InGraph
   /\ hist.origin # "None"
   /\ Has(st, "candidate_mode")
   /\ st["candidate_mode"] = T_explain)
    => /\ pc # "run"
       /\ ~hist.ran
       /\ hist.gated => (st["approval"] = "cancelled" /\ pc = "END")

\* an explain-mode candidate with a runnable, harmless command was cancelled
C5_Witness ==
  /\ pc = "END"
  /\ Translated
  /\ st["candidate_mode"] = T_explain
  /\ st["candidate_command"] = <<"l","s"," ","-","a">>
  /\ ~TruthyFlag(st, "danger")
  /\ hist.gated
  /\ st["approval"] = "cancelled"
  /\ hist.executed = {}

\* the candidate a translation node has just handed over
HandedOver ==
  IF hist.via = "call" THEN ret ELSE st

\* a translation node has just returned
JustTranslated ==
  /\ hist.origin \in TranslationNodes
  /\ \/ hist.via = "call" /\ pc = "returned"
     \/ InGraph /\ pc = "danger_check"

\* C6: for each translation kind, when the transport raises or times out on
\* every attempt, the result is a Candidate with empty command, mode explain
\* and the error message as explanation.
C6_FailureGivesExplainCandidate ==
  (JustTranslated /\ hist.allFailed)
    => /\ GetText(HandedOver, "candidate_command") = <<>>
       /\ Has(HandedOver, "candidate_mode")
       /\ HandedOver["candidate_mode"] = T_explain
       /\ StartsWith(GetText(HandedOver, "candidate_explanation"),
                     LLMErrorPrefix)

\* C7: a translation call whose transport does not answer within the
\* timeout returns control to its caller once the bound expires, even if
\* the worker never completes: the caller does not wait for the worker.
C7_TimeoutDoesNotWaitForWorker ==
  tr.phase = "joining" => ENABLED JoinCompletes

\* the verdict a classification returned
VerdictReasons == IF Has(ret, "reasons") THEN ret.reasons ELSE ret.danger_reasons

\* C8: every verdict, of check_danger alone or of danger_check (the
\* empty-candidate case included), is dangerous if and only if its reason
\* list is non-empty.
C8_DangerousIffReasons ==
  (pc \in {"classified", "danger_checked"} /\ ret # Raised)
    => (ret.danger <=> VerdictReasons # <<>>)

\* danger_check on a harmless command made dangerous by the explanation only
C8_Witness ==
  /\ pc = "danger_checked"
  /\ ret # Raised
  /\ st["candidate_command"] = <<"l","s">>
  /\ ret.danger
  /\ ret.danger_reasons = <<L_Explanation>>

SignatureExamples ==
  { <<"r","m"," ","-","r","f"," ","/">>, <<"m","k","f","s",".","e","x","t","4"," ","/","d","e","v","/","s","d","a","1">>, <<":","(",")","{"," ",":","|",":","&"," ","}",";",":">>,
    <<"c","u","r","l"," ","x"," ","|"," ","b","a","s","h">> }

\* C9: check_danger returns danger = true with a non-empty reason list for
\* rm -rf /, mkfs.ext4 /dev/sda1, the fork-bomb literal and curl x | bash.
C9_SignatureExamplesFlagged ==
  (pc = "classified" /\ st["candidate_command"] \in SignatureExamples)
    => /\ ret # Raised
       /\ ret.danger
       /\ ret.reasons # <<>>

\* the first blank-separated word of a text
RECURSIVE FirstWord(_)
FirstWord(s) ==
  IF s = <<>> \/ Head(s) \in WhiteSpace
    THEN <<>>
    ELSE <<Head(s)>> \o FirstWord(Tail(s))

\* the command starts with an allow-listed utility, holds no sudo and no
\* redirection into a protected system directory
AllowListedPlain(cmd) ==
  /\ FirstWord(Strip(cmd)) \in ALLOWED_PREFIXES
  /\ ~Contains(Strip(cmd), <<"s","u","d","o">>)
  /\ ~Search(P_SystemRedirect, Strip(cmd))

SafeVerdict == [danger |-> FALSE, reasons |-> <<>>]

\* C10: for every command whose first token is allow-listed,
\* without sudo and without redirection into a protected directory,
\* check_danger returns danger = false with no reasons, whatever the
\* arguments are.
C10_AllowListedAlwaysSafe ==
  (pc = "classified" /\ AllowListedPlain(st["candidate_command"]))
    => ret = SafeVerdict

\* the request's text holds one of the destructive-intent phrases
DestructiveIntent(d) ==
  \E k \in intent_keywords : Contains(Lower(GetText(d, "user_request")), k)

\* C11: for a natural-language request holding a destructive-intent phrase
\* the danger verdict is dangerous whatever command translation returned,
\* and the candidate reaches run only after the human confirmation prompt.
C11_DestructiveIntentBlocks ==
  (InGraph /\ hist.routed = "from_english" /\ DestructiveIntent(st))
    => /\ pc \in {"approval_gate", "approval_prompt", "feedback_prompt"}
            => /\ TruthyFlag(st, "danger")
               /\ \E i \in DOMAIN st["danger_reasons"] :
                    st["danger_reasons"][i] = L_Intent
       /\ pc = "run" => AnsweredYes /\ st["approval"] = "approved"

\* "Wipe Disk" was translated to a command the classifier finds harmless,
\* and the workflow waits at the prompt
C11_Witness ==
  /\ pc = "approval_prompt"
  /\ hist.routed = "from_english"
  /\ st["user_request"] = <<"W","i","p","e"," ","D","i","s","k">>
  /\ st["candidate_command"] = <<"l","s"," ","-","a">>
  /\ ~check_danger(st["candidate_command"]).danger
  /\ st["candidate_explanation"] = <<"l","i","s","t","s"," ","f","i","l","e","s">>
  /\ st["danger_reasons"] = <<L_Intent>>

SyntheticResult ==
  [exit_code |-> 0, stdout |-> DryRunStdout, stderr |-> <<>>]

\* C12: whenever dry-run is active, run does not invoke subprocess.run and
\* yields the synthetic result (exit code 0, placeholder stdout, empty
\* stderr), and error_decision is never entered from a dry run.
C12_DryRunIsSynthetic ==
  (InGraph /\ hist.ran /\ IsDry(st, envDry))
    => /\ hist.executed = {}
       /\ st["result"] = SyntheticResult
       /\ pc \notin {"error_decision", "fix_prompt"}

\* C13: whenever run produced a non-zero exit code, last_command and
\* last_error are set, to the command just run and its error text, when
\* error_decision is entered.
C13_FailureSetsLastCommand ==
  (InGraph /\ pc = "error_decision")
    => /\ TruthyText(st, "last_command")
       /\ TruthyText(st, "last_error")
       /\ st["last_command"] = GetText(st, "candidate_command")

\* C14: in a non-interactive request error_decision decides stop without
\* prompting, from_error is not entered from error_decision, and run is
\* invoked at most once.
C14_NonInteractiveStops ==
  (InGraph /\ ~TruthyFlag(st, "interactive"))
    => /\ pc # "fix_prompt"
       /\ "error_decision" \in hist.visited
            => /\ pc = "END"
               /\ st["fix_decision"] = "stop"
       /\ pc = "run" => "run" \notin hist.visited

\* a one-shot request whose command failed has ended after one run
C14_Witness ==
  /\ hist.via = "english"
  /\ ~TruthyFlag(st, "interactive")
  /\ pc = "END"
  /\ "error_decision" \in hist.visited
  /\ st["result"].exit_code = 2
  /\ st["fix_decision"] = "stop"
  /\ hist.executed = {st["candidate_command"]}

\* the response sent last on the connection
LastOut == dmn.out[Len(dmn.out)]

\* the handler of the named event has just returned and was answered
Handled(event) ==
  /\ dmn.phase = "open"
  /\ pc = "d_lines"
  /\ hist.via = event
  /\ dmn.out # <<>>

\* C15: the daemon never executes a command: whatever requests arrive, its
\* handlers only enter translation and the danger check; run_command and
\* subprocess.run are never invoked.
C15_DaemonNeverExecutes ==
  dmn.phase # "none"
    => /\ pc \in {"d_recv", "d_lines", "d_classify", "d_closed",
                  "from_english", "from_error", "returned"}
       /\ hist.executed = {}
       /\ ~hist.ran
       /\ hist.visited \subseteq {"from_english", "from_error", "danger_check"}

\* a failed command was reported and a flagged fix was only suggested
C15_Witness ==
  /\ Handled("postexec")
  /\ Has(LastOut, "action")
  /\ LastOut.action = "suggest_fix"
  /\ LastOut.suggested_command = <<"r","e","b","o","o","t">>
  /\ LastOut.danger
  /\ hist.executed = {}

\* C16: for every preexec response that carries a command (replace or
\* proceed), require_confirmation equals check_danger's danger for exactly
\* that command and danger_reasons equals check_danger's reasons.
C16_PreexecVerdictIsClassifier ==
  (Handled("preexec") /\ Has(LastOut, "command"))
    => /\ LastOut.action \in {"replace", "proceed"}
       /\ check_danger(LastOut.command) # Raised
       /\ LastOut.require_confirmation = check_danger(LastOut.command).danger
       /\ LastOut.danger_reasons = check_danger(LastOut.command).reasons

\* C17: postexec with exit code 0 answers ok without translation; with a
\* non-zero exit code it calls from_error and answers no_fix with the
\* explanation iff the suggested command is empty, else suggest_fix with
\* the suggested command, its explanation and its danger verdict.
C17_PostexecAnswers ==
  Handled("postexec")
    => IF ExitCodeOf(dmn.req) = 0
         THEN LastOut = [action |-> "ok"] /\ hist.calls = 0
       ELSE IF Strip(GetText(dmn.got, "candidate_command")) = <<>>
         THEN /\ hist.calls = 1
              /\ LastOut = [action |-> "no_fix",
                            explanation |->
                              GetText(dmn.got, "candidate_explanation")]
         ELSE /\ hist.calls = 1
              /\ Has(LastOut, "action")
              /\ LastOut.action = "suggest_fix"
              /\ LastOut.suggested_command =
                   Strip(dmn.got["candidate_command"])
              /\ LastOut.explanation =
                   GetText(dmn.got, "candidate_explanation")
              /\ LastOut.danger =
                   check_danger(LastOut.suggested_command).danger
              /\ LastOut.danger_reasons =
                   check_danger(LastOut.suggested_command).reasons

\* the complete lines of a byte stream, in order
RECURSIVE LinesOf(_)
LinesOf(stream) ==
  IF \A i \in 1..Len(stream) : stream[i] # NL
    THEN <<>>
    ELSE LET k == CHOOSE i \in 1..Len(stream) :
                    stream[i] = NL /\ \A j \in 1..(i - 1) : stream[j] # NL
         IN  <<SubSeq(stream, 1, k - 1)>>
               \o LinesOf(SubSeq(stream, k + 1, Len(stream)))

\* what the client has sent and conn.recv has returned
Received == SubSeq(dmn.sent, 1, Len(dmn.sent) - Len(dmn.inbox))

IsNotBlank(line) == \E i \in 1..Len(line) : line[i] # SP

\* resp is an answer to the request line
Answers(line, resp) ==
  LET v == JsonLoads(line)
  IN  IF v = JsonError
        THEN resp = ErrorResponse("Invalid JSON")
      ELSE IF ~IsObject(v)
        THEN DOMAIN resp = {"error"}
      ELSE IF ~Has(v, "event") \/ v["event"] \notin {"preexec", "postexec"}
        THEN resp = ErrorResponse("Unknown event")
      ELSE IF v["event"] = "preexec"
        THEN \/ DOMAIN resp = {"error"}
             \/ /\ resp.action \in {"proceed", "replace", "message"}
                /\ resp.action = "proceed"
                     => resp.command = Strip(GetText(v, "cmd"))
        ELSE \/ DOMAIN resp = {"error"}
             \/ resp.action \in {"ok", "no_fix", "suggest_fix"}

\* the loop of _serve_client is at conn.recv or has ended
AtLoopHead == dmn.phase # "none" /\ pc \in {"d_recv", "d_closed"}

\* C18, as claimed: one response is written per request line, in request
\* order; a line that is not valid structured text or names an unknown
\* event gets an error-only response, and the connection stays open.
C18_OneResponsePerLine ==
  AtLoopHead
    => /\ dmn.seen = LinesOf(Received)
       /\ Len(dmn.out) = Len(dmn.seen)
       /\ \A i \in 1..Len(dmn.out) : Answers(dmn.seen[i], dmn.out[i])
       /\ pc = "d_closed" => dmn.inbox = <<>>

\* C18, amended: one response is written per request line that is not
\* blank, in request order (a blank line is skipped without a response); a
\* line that is not valid structured text or names an unknown event gets an
\* error-only response, and the connection stays open until the client
\* closes it.
C18_OneResponsePerNonBlankLine ==
  AtLoopHead
    => /\ dmn.seen = LinesOf(Received)
       /\ Len(dmn.out) = Len(SelectSeq(dmn.seen, IsNotBlank))
       /\ \A i \in 1..Len(dmn.out) :
            Answers(SelectSeq(dmn.seen, IsNotBlank)[i], dmn.out[i])
       /\ pc = "d_closed" => dmn.inbox = <<>>

\* a line of no structured text was answered with an error, and the request
\* after it on the same connection was answered too
C18_Witness ==
  /\ pc = "d_closed"
  /\ Len(dmn.seen) = 2
  /\ dmn.seen[1] = <<Junk, Junk>>
  /\ dmn.out = <<ErrorResponse("Invalid JSON"), [action |-> "ok"]>>

\* the graph of graph.py would auto-approve and run what translation
\* returned for the request: mode run, no placeholder, not dangerous
WouldAutoRun(request, out) ==
  LET s1 == Merge([user_request |-> request], out)
      d  == danger_check(s1)
  IN  /\ d # Raised
      /\ approval_gate(Merge(s1, d)) = [approval |-> "auto"]
      /\ post_approval(Merge(Merge(s1, d), [approval |-> "auto"])) = "run"

\* C19: preexec answers a natural-language request with replace and
\* require_confirmation = false only when the graph would auto-approve and
\* run the same translation result for the same request.
C19_DaemonAgreesWithGraph ==
  (/\ Handled("preexec")
   /\ Has(LastOut, "action")
   /\ LastOut.action = "replace"
   /\ ~LastOut.require_confirmation)
    => WouldAutoRun(preexec_begin(dmn.req).call["user_request"], dmn.got)

\* the last n elements of s, all of s when it has fewer
LastN(s, n) == [k \in 1..(IF Len(s) < n THEN Len(s) ELSE n) |->
                  s[Len(s) - (IF Len(s) < n THEN Len(s) ELSE n) + k]]

C21_ErrorTextIsWindow ==
  (term.phase = "repair" /\ term.capture.by = "status") =>
    term.last_error_text =
      <<JoinLines(SubSeq(term.arrived, term.capture.from + 1, Len(term.arrived) - 1))>>

\* the lines appended since the tracked command was sent
SinceSent(t) == SubSeq(t.arrived, t.pending_from + 1, Len(t.arrived))

\* C23: a command dispatched by the repair loop is the tracked pending command
\* until a line that closes its window (a status line, or a line holding
\* "command not found") has arrived after it was sent.
C23_CorrectedCommandTracked ==
  (term.dispatched # <<>> /\ term.phase = "idle"
     /\ \A i \in 1..Len(SinceSent(term)) : ~Notable(SinceSent(term)[i]))
    => term.pending_cmd = term.dispatched

\* _try_auto_repair is about to run for a detected failure of a non-empty command
RepairDue ==
  /\ term.phase = "repair"
  /\ term.auto_repair
  /\ term.last_failed_command # <<>> /\ term.last_failed_command[1] # <<>>

AttemptsOf(t, cmd) == IF cmd \in DOMAIN t.repair_attempts THEN t.repair_attempts[cmd] ELSE 0

\* the call of _try_auto_repair counts one more attempt for the failed command
AttemptCounted ==
  AttemptsOf(term', term.last_failed_command[1]) = AttemptsOf(term, term.last_failed_command[1]) + 1

\* the counter of a command is gone when its window was closed by status 0
RemovedOnSuccess ==
  term'.capture.by = "ok" => term'.capture.cmd \notin DOMAIN term'.repair_attempts

SentNow ==
  IF Len(term'.sh.todo) > Len(term.sh.todo)
       /\ SubSeq(term'.sh.todo, 1, Len(term.sh.todo)) = term.sh.todo
    THEN SubSeq(term'.sh.todo, Len(term.sh.todo) + 1, Len(term'.sh.todo))
    ELSE <<>>

\* C22: when the multiplexer reads the output of a tracked command that ended
\* with a non-zero status, the failure is captured naming that command, and a
\* status line closes the window of the tracked command only if it carries
\* the status of that command.
C22_OwnStatusClosesWindow ==
  [][term'.fed # term.fed =>
       /\ (term'.got.tracked /\ term'.got.code # 0) =>
            /\ term'.capture # term.capture
            /\ term'.capture.by \in {"status", "not_found"}
            /\ term'.last_failed_command = <<term'.got.of>>
       /\ (term'.capture # term.capture /\ term'.capture.by \in {"status", "ok"}) =>
            term.pending_cmd = <<term'.got.of>>]_vars

\* the first word of a line is one of the multiplexer's own commands
IsMuxCommand(line) ==
  Words(line) # <<>>
  /\ Words(line)[1] \in {<<"/","r","e","p","a","i","r">>, <<"/","d","r","y">>, <<"/","h","e","l","p">>, <<"/","q">>, <<"/","q","u","i","t">>, <<"/","e","x","i","t">>}

\* C25: no line that is a multiplexer command (repair, dry, help, quit) is
\* handed to the shell for execution.
C25_CommandLinesStayLocal ==
  \A i \in 1..Len(term.sh.todo) : ~IsMuxCommand(term.sh.todo[i].line)

\* C30: for an intercepted control byte the raw byte is written to the PTY
\* only when no signal was delivered.
C30_ByteOnlyAsFallback ==
  term.fx.sig # <<>> => ~(term.fx.sig[1].sent /\ term.fx.sig[1].wrote)

\* the answer is a cancel at a choice or approval prompt, or Ctrl-C
IsCancel(phase, a) ==
  \/ a.end = "interrupt"
  \/ phase \in {"ask_fix", "ask_nofix"} /\ a.end = "enter" /\ Lower(Strip(a.keys)) = <<"c">>
  \/ phase = "ask_approve" /\ a.end = "enter" /\ Lower(a.keys) = <<"n">>

\* the lines queued for the shell that are not blank
CommandsIn(todo) == SelectSeq(todo, LAMBDA j : Strip(j.line) # <<>>)

\* C29: a cancel answer or Ctrl-C at a blocking prompt makes no translation
\* call, dispatches no command and leaves the loop running.
C29_CancelHasNoEffect ==
  [][(term.phase \in Prompts /\ term'.phase # term.phase
        /\ IsCancel(term.phase, term'.fx.answer)) =>
       /\ term'.fx.calls = term.fx.calls
       /\ CommandsIn(term'.sh.todo) = CommandsIn(term.sh.todo)
       /\ term'.phase # "closed"]_vars

\* C28: once stdin is at EOF while a blocking prompt waits for input, run
\* reaches its teardown (terminal attributes restored, child hung up and
\* reaped).
C28_EofLeadsToTeardown ==
  (term.stdin = "eof" /\ term.phase \in Prompts) ~> (term.phase = "closed")

\* the classifier flags the text as dangerous
Flagged(cmd) == check_danger(cmd) # Raised /\ check_danger(cmd).danger

C26_AutoRepairOffOnlyHints ==
  [][(term.phase = "repair" /\ term'.phase # "repair" /\ ~term.auto_repair) =>
       /\ term'.fx.calls = term.fx.calls
       /\ term'.sh = term.sh
       /\ term'.repair_attempts = term.repair_attempts
       /\ term'.phase = "idle"
       /\ term'.fx.hint <=>
            /\ term.last_error_text # <<>>
            /\ Contains(Lower(term.last_error_text[1]), <<"c","o","m","m","a","n","d"," ","n","o","t"," ","f","o","u","n","d">>)]_vars

\* a failure without "command not found" was detected with auto-repair off
\* and no hint was printed
C26_Witness ==
  /\ ~term.auto_repair
  /\ term.phase = "idle"
  /\ term.capture.by = "status"
  /\ term.last_error_text # <<>> /\ term.last_error_text[1] # <<>>
  /\ ~term.fx.hint
  /\ term.got.code = 2

FailureLine(line) ==
  \/ Contains(Lower(line), <<"c","o","m","m","a","n","d"," ","n","o","t"," ","f","o","u","n","d">>)
  \/ IsStatusLine(line) /\ StatusCode(line) # 0

\* C32: each capture of (last_failed_command, last_error_text), and so each
\* call of _try_auto_repair, is made at the first failure line that arrived
\* since the tracked command was sent and while that command is pending: a
\* second failure line for the same dispatch, from either detector, in the
\* same chunk or in a later one, captures nothing and attempts no repair.
C32_OneCapturePerDispatch ==
  [][term'.phase = "repair" =>
       LET since == SinceSent(term')
       IN /\ term.phase = "idle"
          /\ term.pending_cmd # <<>>
          /\ term'.last_failed_command = term.pending_cmd
          /\ since # <<>> /\ FailureLine(since[Len(since)])
          /\ \A i \in 1..(Len(since) - 1) : ~FailureLine(since[i])]_vars

\* the 'command not found' line of a tracked command was captured and its
\* non-zero status line has arrived as well, without a second capture
C32_Witness ==
  /\ term.phase = "idle"
  /\ term.capture.by = "not_found"
  /\ term.pending_cmd = <<>>
  /\ term.repair_attempts # <<>>
  /\ \E i \in 1..Len(term.arrived) :
        /\ i > term.capture.from + 1
        /\ IsStatusLine(term.arrived[i]) /\ StatusCode(term.arrived[i]) # 0
        /\ \A j \in (term.capture.from + 1)..(i - 1) : ~IsStatusLine(term.arrived[j])

\* the transport calls one from_english or from_error translation may make
PromptLimit == IF Strict(st) THEN 2 ELSE 1

\* the attempt in progress ended in an exception (raised by the transport, or
\* the timeout) or in a reply whose parse carries the plain-text note
AttemptFellBack ==
  \/ tr.phase = "joining"
  \/ worker.status = "raised"
  \/ worker.status = "returned" /\ IsPlainTextFallback(_parse_llm_json(worker.val))

\* C33: a from_english or from_error translation calls the transport at most
\* once without the strict flag and at most twice with it; the second prompt
\* is sent only with the strict flag and after a first attempt that raised or
\* whose parse gave the plain-text fallback; and with the strict flag the
\* fallback candidate is never what the translation returns.
C33_StrictRetriesOnce ==
  /\ [](tr.phase # "idle" /\ tr.node # "replan" =>
          /\ tr.attempt <= PromptLimit
          /\ hist.via = "call" => hist.calls <= PromptLimit)
  /\ [](pc = "returned" /\ hist.via = "call" /\ hist.origin \in {"from_english", "from_error"} =>
          /\ hist.calls <= PromptLimit
          /\ Strict(st) => ~IsPlainTextFallback([explanation |-> ret.candidate_explanation]))
  /\ [][(tr.phase # "idle" /\ tr'.phase # "idle" /\ tr'.attempt # tr.attempt) =>
          /\ tr.attempt = 1 /\ tr'.attempt = 2
          /\ Strict(st)
          /\ AttemptFellBack]_vars

\* a strict translation has sent both prompts, got prose both times and
\* returned the empty explain-only candidate
C33_Witness ==
  /\ pc = "returned" /\ hist.via = "call" /\ hist.origin = "from_error"
  /\ Strict(st)
  /\ hist.calls = 2
  /\ ~hist.allFailed
  /\ ret.candidate_command = <<>> /\ ret.candidate_explanation = <<>>

\* C34: whatever text the transport returns, a translation hands a candidate
\* to its caller: it does not raise once the transport has answered.
C34_ReplyAlwaysGivesCandidate ==
  ret = Raised => hist.origin \notin TranslationNodes

\* C35: every invocation of the graph with a state the router accepts gets
\* to the terminal state END.
C35_EveryInvocationEnds ==
  (pc = "router" /\ route(st) # "ValueError") ~> (pc = "END")

\* C36: the translation client is constructed at most once in the process,
\* and every translation of every connection worker is made with that one.
C36_ClientConstructedOnce ==
  dmn.phase = "pool" =>
    /\ dmn.constructed <= 1
    /\ Cardinality(dmn.used) <= 1

\* the lines a step gave the shell to run
SentLines(t, t2) ==
  {t2.sh.todo[i].line : i \in (Len(t.sh.todo) + 1)..Len(t2.sh.todo)}

\* the translation of the line in progress gave no runnable command
NoCommand(t) ==
  t.ctx.from = "gate" /\ t.ctx.branch \in {"empty", "explain", "rejected", "error"}

\* the prefixed line the user typed and its English remainder
TypedTexts(original) ==
  {Strip(original), Strip(SubSeq(LStrip(original), 3, Len(LStrip(original))))}

\* C37: when the translation of a /e line yields no runnable command, the
\* step that learns it sends the shell nothing and puts the replan / edit /
\* cancel choice to the user, and no later step of that handler sends the
\* shell the typed line or its English remainder.
C37_NoCommandNothingSent ==
  [][ /\ (NoCommand(term') /\ term.phase = "idle") =>
           /\ term'.phase = "ask_nofix"
           /\ term'.fx.asked
           /\ SentLines(term, term') = {}
      /\ NoCommand(term) =>
           \A l \in SentLines(term, term') :
             Strip(l) \notin TypedTexts(term.ctx.original) ]_vars

\* the sanitizer rejected the translation, the user chose to replan, and the
\* replanned command waits at the approval prompt
C37_Witness ==
  /\ term.phase = "ask_approve"
  /\ term.ctx.from = "gate" /\ term.ctx.branch = "rejected"
  /\ term.ctx.kind = "replan"
  /\ term.fx.calls = 2

\* C38: while dry_run is set the shell is given no command line to run: what
\* it is sent on Enter is an empty line, apart from the prompt hook and the
\* exit of /q.
C38_DryRunRunsNothing ==
  (Has(term, "dry_run") /\ term.dry_run) =>
    \A i \in 1..Len(term.sh.todo) :
      \/ Strip(term.sh.todo[i].line) = <<>>
      \/ term.sh.todo[i].how \in {"hook", "quit"}

\* C39: a command goes from approval_gate to the shell only when check_danger
\* returned a verdict for it that is not dangerous, or returned a dangerous
\* one and the user answered y or yes; never when check_danger raised.
C39_ApprovedOnlyOnVerdict ==
  [][\A i \in 1..Len(SentNow) :
       SentNow[i].how \in {"english", "repaired", "replan"} =>
         /\ term'.fx.gate # <<>>
         /\ \/ term'.fx.gate[1].verdict = "safe"
            \/ /\ term'.fx.gate[1].verdict = "danger"
               /\ approved_by(term'.fx.answer)]_vars

\* the first tokens gate_and_send handles itself
MuxCommands == {<<"/","q">>, <<"/","q","u","i","t">>, <<"/","e","x","i","t">>, <<"/","h","e","l","p">>, <<"/","r","e","p","a","i","r">>}

\* C40: when Enter ends a slash-prefixed line, a translation call is made
\* only if the first token is exactly /e; a line whose first token is
\* neither /e nor a multiplexer command makes no translation call and is
\* sent to the shell as typed.
C40_OnlyExactPrefixTranslates ==
  [][(/\ term.phase = "idle" /\ term.keys # <<>> /\ term'.keys # term.keys
      /\ Head(term.keys) \in {CR, LF}
      /\ StartsWith(LStrip(term.line_buffer), <<"/">>)) =>
       LET first == Words(term.line_buffer)[1]
       IN /\ term'.fx.calls > 0 => first = <<"/","e">>
          /\ first \notin MuxCommands \cup {<<"/","e">>} =>
               /\ term'.fx.calls = 0
               /\ Len(SentNow) = 1
               /\ SentNow[1].line = term.line_buffer]_vars

====
